---- MODULE Spec2Model ----
(***************************************************************************)
(* Model of the conversation core of the mental-health voice bot backend:  *)
(* the session store and text turn of TherapyService, the two-stage crisis *)
(* detector and crisis script of LLMService, and the cached emotion        *)
(* analysis of EmotionService.                                             *)
(*                                                                         *)
(* Text is a sequence of characters.  An ASCII character is the string of  *)
(* that character; any other character is named by its code point, so      *)
(* "U0416" is the single character U+0416.  The provider calls (language   *)
(* model) are the points where a request may be suspended and another      *)
(* request may run; everything between two provider calls is one step.     *)
(***************************************************************************)
EXTENDS Integers, Sequences, FiniteSets, TLC

VARIABLES
  cd,           \* one call of LLMService.detect_crisis: text, stage, verdict
  sessions,     \* TherapyService.sessions: session id -> the session dict (a reference)
  heap,         \* the session dicts that are still referenced: reference -> fields
  clock,        \* the reading of datetime.now()
  pc,           \* per request slot: where its process_message call stands
  req,          \* per request slot: the locals of its call in flight
  ncalls,       \* process_message calls started so far
  out,          \* what the operation completed by the last step returned
  emotion_cache,  \* EmotionService._emotion_cache: message text -> EmotionAnalysis
  epc,          \* per request slot: where its analyze_emotion call stands
  ereq,         \* per request slot: the arguments of its call in flight
  eout,         \* what the analyze_emotion call completed by the last step returned
  elast,        \* per text: how the last completed call on it ended
  ecalls,       \* analyze_emotion calls started so far
  mout,         \* what the emotion_to_voice_parameters call of the last step returned
  mseen,        \* per analysis: what the first call on it returned
  mcalls,       \* emotion_to_voice_parameters calls so far
  tts,          \* the text_to_speech call: its arguments, its loop and its result
  vturn,        \* the process_voice_message call: its arguments, locals and result
  ssml          \* a call of SSMLBuilder: its arguments and what it returned

svars == <<sessions, heap, clock, pc, req, ncalls, out>>

evars == <<emotion_cache, epc, ereq, eout, elast, ecalls>>

mvars == <<mout, mseen, mcalls>>

vars == <<cd, sessions, heap, clock, pc, req, ncalls, out,
          emotion_cache, epc, ereq, eout, elast, ecalls,
          mout, mseen, mcalls, tts, vturn, ssml>>

-----------------------------------------------------------------------------
(* Bounds of the model *)

\* longest run of filler characters put before and after a keyword
MaxPad == 1

\* process_message calls in one run
MaxCalls == 2

\* request slots: the calls that can be in flight at once
MaxSlots == 2

\* readings the clock can advance through
MaxClock == 1

\* analyze_emotion calls in one run
MaxEmotionCalls == 3

\* emotion_to_voice_parameters calls in one run
MaxMapCalls == 2

\* text_to_speech calls in one run
MaxTTSCalls == 2

\* process_voice_message calls in one run
MaxVoiceCalls == 1

\* the length of the short texts given to the markup builder
MaxTextLen == 4

-----------------------------------------------------------------------------
(* Characters and strings: str.lower, str.upper, str.strip, `in` *)

UpperChars ==
  <<
     "A", "B", "C", "D", "E", "F", "G", "H", "I", "J", "K", "L", "M", "N", "O", "P", "Q", "R",
     "S", "T", "U", "V", "W", "X", "Y", "Z", "U0410", "U0411", "U0412", "U0413", "U0414",
     "U0415", "U0416", "U0417", "U0418", "U0419", "U041A", "U041B", "U041C", "U041D", "U041E",
     "U041F", "U0420", "U0421", "U0422", "U0423", "U0424", "U0425", "U0426", "U0427", "U0428",
     "U0429", "U042A", "U042B", "U042C", "U042D", "U042E", "U042F"
  >>
LowerChars ==
  <<
     "a", "b", "c", "d", "e", "f", "g", "h", "i", "j", "k", "l", "m", "n", "o", "p", "q", "r",
     "s", "t", "u", "v", "w", "x", "y", "z", "U0430", "U0431", "U0432", "U0433", "U0434",
     "U0435", "U0436", "U0437", "U0438", "U0439", "U043A", "U043B", "U043C", "U043D", "U043E",
     "U043F", "U0440", "U0441", "U0442", "U0443", "U0444", "U0445", "U0446", "U0447", "U0448",
     "U0449", "U044A", "U044B", "U044C", "U044D", "U044E", "U044F"
  >>

CharIndex(c, table) == CHOOSE i \in 1..Len(table) : table[i] = c

\* str.lower() on one character
LowerChar(c) ==
  IF \E i \in 1..Len(UpperChars) : UpperChars[i] = c
  THEN LowerChars[CharIndex(c, UpperChars)]
  ELSE c

\* str.upper() on one character
UpperChar(c) ==
  IF \E i \in 1..Len(LowerChars) : LowerChars[i] = c
  THEN UpperChars[CharIndex(c, LowerChars)]
  ELSE c

Lower(s) == [i \in 1..Len(s) |-> LowerChar(s[i])]

Upper(s) == [i \in 1..Len(s) |-> UpperChar(s[i])]

Whitespace == {" ", "\n", "\t"}

\* str.strip(): drop leading and trailing whitespace
Strip(s) ==
  LET keep == {i \in 1..Len(s) : s[i] \notin Whitespace}
  IN  IF keep = {} THEN <<>>
      ELSE LET lo == CHOOSE i \in keep : \A j \in keep : i <= j
               hi == CHOOSE i \in keep : \A j \in keep : j <= i
           IN  SubSeq(s, lo, hi)

\* Python's `needle in haystack` on strings
Contains(haystack, needle) ==
  \E i \in 0..(Len(haystack) - Len(needle)) :
    SubSeq(haystack, i + 1, i + Len(needle)) = needle

-----------------------------------------------------------------------------
(* LLMService.detect_crisis *)

crisis_keywords ==
  <<
     <<"s","u","i","c","i","d","e">>,
     <<"s","u","i","c","i","d","a","l">>,
     <<"k","i","l","l"," ","m","y","s","e","l","f">>,
     <<"e","n","d"," ","m","y"," ","l","i","f","e">>,
     <<"w","a","n","t"," ","t","o"," ","d","i","e">>,
     <<"s","e","l","f"," ","h","a","r","m">>,
     <<"h","u","r","t"," ","m","y","s","e","l","f">>,
     <<"c","u","t","t","i","n","g">>,
     <<"o","v","e","r","d","o","s","e">>,
     <<"j","u","m","p">>,
     <<"j","u","m","p","i","n","g">>,
     <<"n","o"," ","r","e","a","s","o","n"," ","t","o"," ","l","i","v","e">>,
     <<"b","e","t","t","e","r"," ","o","f","f"," ","d","e","a","d">>,
     <<"c","a","n","'","t"," ","g","o"," ","o","n">>,
     <<"e","n","d","i","n","g"," ","i","t"," ","a","l","l">>,
     <<"g","o","o","d","b","y","e"," ","f","o","r","e","v","e","r">>,
     <<"h","a","n","g"," ","m","y","s","e","l","f">>,
     <<"h","a","n","g","i","n","g">>,
     <<"w","a","n","t"," ","t","o"," ","h","u","r","t">>,
     <<"U0440","U0434","U0416","U0440","U0434","U0434","U0440","U0435","U041D","U0440","U0434","U043E","U0440","U0434","U2563","U0440","U0434","U0434","U0440","U0435","U041D","U0440","U0434","U043F","U0440","U0434","U255B">>,
     <<"U0440","U0434","U0426","U0440","U0435","U0411","U0440","U0434","U0436","U0440","U0434","U0425","U0440","U0435","U0411","U0440","U0434","U2562","U0440","U0435","U0410">>,
     <<"U0440","U0434","U043E","U0440","U0434","U2591","U0440","U0434","U0438","U0440","U0434","U255B"," ","U0440","U0434","U042A","U0440","U0434","U255B","U0440","U0434","U2563","U0440","U0434","U0434","U0440","U0434","U255B">>,
     <<"U0440","U0434","U043E","U0440","U0434","U2591","U0440","U0434","U0438","U0440","U0434","U255B"," ","U0440","U0434","U042A","U0440","U0434","U255B","U0440","U0434","U2563","U0440","U0434","U0434","U0440","U0435","U0410">>,
     <<"U0440","U0434","U042C","U0440","U0434","U255B","U0440","U0434","U0438"," ","U0440","U0434","U0436","U0440","U0435","U0417","U0440","U0434","U0438","U0440","U0434","U255B">>,
     <<"U0440","U0434","U043E","U0440","U0435","U041C","U0440","U0434","U0434">>,
     <<"U0440","U0434","U0425","U0440","U0435","U0412","U0440","U0434","U0436","U0440","U0434","U0438","U0440","U0434","U255B">>,
     <<"U0440","U0434","U0425","U0440","U0435","U0412","U0440","U0434","U0436","U0440","U0435","U0412","U0440","U0434","U0412","U0440","U0434","U0427","U0440","U0434","U255B">>,
     <<"U0440","U0434","U0425","U0440","U0435","U0412","U0440","U0434","U0436","U0440","U0435","U0412","U0440","U0434","U0412","U0440","U0434","U0427","U0440","U0435","U0410">>,
     <<"U0440","U0434","U0426","U0440","U0435","U0411","U0440","U0434","U0436"," ","U0440","U0434","U0425","U0440","U0435","U041B"," ","U0440","U0434","U043E","U0440","U0434","U255B","U0440","U0434","U2591">>,
     <<"U0440","U0434","U0416","U0440","U0434","U0434","U0440","U0435","U041D","U0440","U0434","U043E","U0440","U0434","U2563","U0440","U0434","U0434","U0440","U0435","U041D","U0440","U0434","U043F","U0440","U0434","U255B"," ","U0440","U0434","U0425","U0440","U0434","U2591","U0440","U0434","U0438","U0440","U0434","U255B">>,
     <<"U0440","U0434","U042C","U0440","U0435","U0410","U0440","U0434","U0438","U0440","U0434","U255B"," ","U0440","U0434","U0438","U0440","U0434","U2563","U0440","U0435","U0410","U0440","U0434","U0412"," ","U0440","U0434","U042A","U0440","U0434","U255B","U0440","U0434","U2563","U0440","U0434","U0434","U0440","U0434","U255B">>,
     <<"U0440","U0434","U042C","U0440","U0435","U0410","U0440","U0434","U0438","U0440","U0434","U255B"," ","U0440","U0434","U0438","U0440","U0434","U2563","U0440","U0435","U0410","U0440","U0434","U0412"," ","U0440","U0434","U042A","U0440","U0434","U255B","U0440","U0434","U2563","U0440","U0434","U0434","U0440","U0435","U0410">>,
     <<"U0440","U0434","U042C","U0440","U0435","U0410","U0440","U0434","U2561","U0440","U0434","U0438"," ","U0440","U0434","U2555","U0440","U0434","U043E","U0440","U0434","U255B","U0440","U0434","U043A","U0440","U0435","U041D","U0440","U0434","U0434">>,
     <<"U0440","U0434","U042B","U0440","U0435","U041B","U0440","U0434","U0431","U0440","U0434","U255D"," ","U0440","U0434","U0436","U0440","U0435","U0417","U0440","U0434","U0438","U0440","U0434","U255B"," ","U0440","U0434","U042A","U0440","U0434","U255B","U0440","U0434","U2563","U0440","U0434","U0434","U0440","U0434","U255B">>,
     <<"m","a","r"," ","j","a","a","n","a">>,
     <<"k","u","d"," ","j","a","a","n","a">>,
     <<"k","h","u","d","k","u","s","h","i">>,
     <<"a","a","t","m","a","h","a","t","y","a">>,
     <<"j","e","e","n","a"," ","n","a","h","i"," ","c","h","a","h","t","a">>,
     <<"m","a","r","n","a"," ","c","h","a","h","t","a">>,
     <<"j","u","m","p"," ","k","a","r">>,
     <<"b","u","i","l","d","i","n","g"," ","s","e"," ","k","u","d">>
  >>

\* lines 118-124: the keyword stage, `keyword in text.lower()` for each keyword
detect_crisis_keyword(text) ==
  LET text_lower == Lower(text)
  IN  \E k \in 1..Len(crisis_keywords) : Contains(text_lower, crisis_keywords[k])

YES == <<"Y","E","S">>

\* What the provider call of the model stage can do: raise, answer with a
\* message that has no content, or answer with a text.
LLMAnswers ==
  { <<"Y","E","S">>, <<"N","O">>, <<"y","e","s">>, <<"n","o">>,
    <<" ","Y","e","s","."," ">>, <<"N","O",".","\n">>, <<>> }

CrisisModelOutcomes ==
  { [kind |-> "error", content |-> <<>>], [kind |-> "none", content |-> <<>>] }
    \cup { [kind |-> "ok", content |-> a] : a \in LLMAnswers }

\* variant: the answer is searched for "YES" without .upper()
llm_says_yes_cased(content) == Contains(Strip(content), YES)

\* lines 146-148: llm_result = content.strip().upper(); "YES" in llm_result
llm_says_yes(content) == Contains(Upper(Strip(content)), YES)

\* lines 128-155: the model stage; a provider error, or a missing content on
\* which .strip() raises, is caught by the except clause and gives False
detect_crisis_model(outcome) ==
  IF outcome.kind = "ok" THEN llm_says_yes(outcome.content) ELSE FALSE

-----------------------------------------------------------------------------
(* LLMService.get_crisis_response *)

\* The three scripts of crisis_responses (lines 167-205); each long text is
\* one token here.
CrisisScriptLanguages == {"en", "hi", "es"}

crisis_responses ==
  [l \in CrisisScriptLanguages |->
     CASE l = "en" -> <<"I hear you ... (India helplines, English)">>
       [] l = "hi" -> <<"(India helplines, Hindi)">>
       [] l = "es" -> <<"Me preocupa mucho ... (988, Spanish)">>]

\* variant: the English script whatever the language
get_crisis_response_en(language) == crisis_responses["en"]

\* line 207: crisis_responses.get(language, crisis_responses["en"])
get_crisis_response(language) ==
  IF language \in DOMAIN crisis_responses
  THEN crisis_responses[language]
  ELSE crisis_responses["en"]

-----------------------------------------------------------------------------
(* LLMService.generate_response *)

ContextTurns == 10

\* conversation_history[-10:]
LastN(s, n) == IF Len(s) <= n THEN s ELSE SubSeq(s, Len(s) - n + 1, Len(s))

\* variant: the oldest ten turns are sent
generate_response_messages_oldest(user_message, conversation_history, language) ==
  (IF conversation_history # <<>>
   THEN SubSeq(conversation_history, 1,
               IF Len(conversation_history) <= ContextTurns
               THEN Len(conversation_history) ELSE ContextTurns)
   ELSE <<>>)
    \o << [role |-> "user", content |-> user_message] >>
    \o (IF language # "en"
        THEN << [role |-> "system", content |-> <<"Please respond in", language>>] >>
        ELSE <<>>)

\* lines 57-72: the messages sent to the provider.  The history turns are
\* sent as stored; the system prompt that precedes them is fixed and left out.
generate_response_messages(user_message, conversation_history, language) ==
  (IF conversation_history # <<>> THEN LastN(conversation_history, ContextTurns) ELSE <<>>)
    \o << [role |-> "user", content |-> user_message] >>
    \o (IF language # "en"
        THEN << [role |-> "system", content |-> <<"Please respond in", language>>] >>
        ELSE <<>>)

\* What the provider call of the Dialogue Generator can do.
Replies == { <<"o","k">>, <<" ","o","k","\n">> }

GenerateOutcomes ==
  { [kind |-> "error", content |-> <<>>], [kind |-> "none", content |-> <<>>] }
    \cup { [kind |-> "ok", content |-> r] : r \in Replies }

\* lines 84-88: response.strip() is returned; a provider error, or a missing
\* content on which .strip() raises, is re-raised as one wrapped exception
generate_response_raises(outcome) == outcome.kind # "ok"

generate_response_result(outcome) == Strip(outcome.content)

-----------------------------------------------------------------------------
(* TherapyService: the session store *)

Slots == 1..MaxSlots

\* Session identifiers.  session_id is Optional[str]: no id (None or the
\* empty string, which `not session_id` treats alike), a string chosen by the
\* client ("s1"), or a string of the generated form.
NoneId == [kind |-> "none", n |-> 0]

ClientId == [kind |-> "client", n |-> 1]

\* line 107: f"session_{datetime.now().timestamp()}"
GeneratedId(now) == [kind |-> "session", n |-> now]

GeneratedIds == {GeneratedId(t) : t \in 0..MaxClock}

SuppliedIds == {NoneId, ClientId} \cup GeneratedIds

\* the path parameter of the two session routes is a non-empty string
RouteIds == {ClientId} \cup GeneratedIds

\* `not session_id`
Falsy(id) == id.kind = "none"

Languages == {"en", "es", "xx"}

Messages == { <<"h","i">>, <<"J","u","m","p">> }

MaxHistory == 20

\* lines 76-80: a stored turn.  Its timestamp is left out; `by` names the
\* request slot whose call appended the turn (0: a turn stored earlier)
Turn(role, content, by) == [role |-> role, content |-> content, by |-> by]

\* lines 35-42: create_session stores a new dict under the id, replacing
\* whatever was stored under it
create_session(store, objs, ref, session_id, now) ==
  [ store |-> [i \in DOMAIN store \cup {session_id} |->
                 IF i = session_id THEN ref ELSE store[i]],
    objs  |-> [r \in DOMAIN objs \cup {ref} |->
                 IF r = ref
                 THEN [id |-> session_id, created_at |-> now,
                       conversation_history |-> <<>>, language |-> "en",
                       crisis_detected |-> FALSE]
                 ELSE objs[r]] ]

\* variant: the stored language is kept
update_session_language_kept(store, objs, session_id, language) == objs

\* lines 58-59
update_session_language(store, objs, session_id, language) ==
  IF session_id \in DOMAIN store
  THEN [objs EXCEPT ![store[session_id]].language = language]
  ELSE objs

\* variant: the first 20 are kept
truncate_history_oldest(h) == IF Len(h) > MaxHistory THEN SubSeq(h, 1, MaxHistory) ELSE h

\* lines 83-85: keep the last 20
truncate_history(h) == IF Len(h) > MaxHistory THEN LastN(h, MaxHistory) ELSE h

\* variant: a full list takes no further turn
add_to_conversation_history_full(store, objs, session_id, turn) ==
  IF session_id \in DOMAIN store
  THEN [objs EXCEPT ![store[session_id]].conversation_history =
                       IF Len(@) >= MaxHistory THEN @ ELSE Append(@, turn)]
  ELSE objs

\* lines 75-85: append to the stored session's list, then truncate
add_to_conversation_history(store, objs, session_id, turn) ==
  IF session_id \in DOMAIN store
  THEN [objs EXCEPT ![store[session_id]].conversation_history =
                       truncate_history(Append(@, turn))]
  ELSE objs

\* variant: the whole store is emptied
clear_session_all(store, session_id) == [i \in {} |-> 0]

\* lines 243-244
clear_session(store, session_id) ==
  [i \in DOMAIN store \ {session_id} |-> store[i]]

\* lines 248-251
get_conversation_history(store, objs, session_id) ==
  IF session_id \in DOMAIN store
  THEN objs[store[session_id]].conversation_history
  ELSE <<>>

\* A dict lives as long as the store or a call in flight refers to it.
Referenced(store, pcs, reqs) ==
  {store[i] : i \in DOMAIN store}
    \cup {reqs[p].session : p \in {q \in 1..MaxSlots : pcs[q] # "idle"}}

Collect(objs, store, pcs, reqs) ==
  [r \in DOMAIN objs \cap Referenced(store, pcs, reqs) |-> objs[r]]

-----------------------------------------------------------------------------
(* TherapyService.process_message, as the steps between its provider calls *)

NoRef == 0 - 1

\* the locals of one process_message call; model_invoked and gen_invoked
\* record that the call reached the provider of the crisis model stage and
\* of the Dialogue Generator, slot names the request for the turns it stores
NoReq ==
  [message |-> <<>>, supplied |-> NoneId, session_id |-> NoneId, language |-> "en",
   session |-> NoRef, slot |-> 0, is_crisis |-> FALSE,
   model_invoked |-> FALSE, gen_invoked |-> FALSE, sent |-> <<>>]

NoResult ==
  [response |-> <<>>, session_id |-> NoneId, is_crisis |-> FALSE, language |-> "en"]

\* what the operation completed by the last step gave back
NoOut ==
  [op |-> "none", status |-> "none", call |-> NoReq, result |-> NoResult,
   session_id |-> NoneId, history |-> <<>>]

\* a new dict gets the first reference not in use
FreshRef(objs) ==
  CHOOSE r \in 0..Cardinality(DOMAIN objs) :
    /\ r \notin DOMAIN objs
    /\ \A q \in 0..(r - 1) : q \in DOMAIN objs

\* variant: the reply is appended before the user message
ReturnTurn_reply_first(p, r, store, objs, response) ==
  LET objs1 == add_to_conversation_history(store, objs, r.session_id,
                                           Turn("assistant", response, r.slot))
      objs2 == add_to_conversation_history(store, objs1, r.session_id,
                                           Turn("user", r.message, r.slot))
  IN  /\ sessions' = store
      /\ pc' = [pc EXCEPT ![p] = "idle"]
      /\ req' = [req EXCEPT ![p] = NoReq]
      /\ out' = [NoOut EXCEPT !.op = "process_message", !.status = "ok",
                              !.call = [r EXCEPT !.session = NoRef],
                              !.result = [response |-> response,
                                          session_id |-> r.session_id,
                                          is_crisis |-> r.is_crisis,
                                          language |-> r.language]]
      /\ heap' = Collect(objs2, store, pc', req')

\* lines 133-141: both turns are appended and the result is returned
ReturnTurn(p, r, store, objs, response) ==
  LET objs1 == add_to_conversation_history(store, objs, r.session_id,
                                           Turn("user", r.message, r.slot))
      objs2 == add_to_conversation_history(store, objs1, r.session_id,
                                           Turn("assistant", response, r.slot))
  IN  /\ sessions' = store
      /\ pc' = [pc EXCEPT ![p] = "idle"]
      /\ req' = [req EXCEPT ![p] = NoReq]
      /\ out' = [NoOut EXCEPT !.op = "process_message", !.status = "ok",
                              !.call = [r EXCEPT !.session = NoRef],
                              !.result = [response |-> response,
                                          session_id |-> r.session_id,
                                          is_crisis |-> r.is_crisis,
                                          language |-> r.language]]
      /\ heap' = Collect(objs2, store, pc', req')

\* lines 118-120 and 133-141: the crisis branch
CrisisTurn(p, r, store, objs) ==
  LET objs1 == [objs EXCEPT ![r.session].crisis_detected = TRUE]
  IN  ReturnTurn(p, r, store, objs1, get_crisis_response(r.language))

\* variant: the user turn is stored before the provider is called
CallGenerator_early(p, r, store, objs) ==
  LET history == objs[r.session].conversation_history
      objs1 == add_to_conversation_history(store, objs, r.session_id,
                                           Turn("user", r.message, r.slot))
  IN  /\ sessions' = store
      /\ pc' = [pc EXCEPT ![p] = "generate_response"]
      /\ req' = [req EXCEPT ![p] =
                   [r EXCEPT !.gen_invoked = TRUE,
                             !.sent = generate_response_messages(
                                        r.message, history, r.language)]]
      /\ out' = NoOut
      /\ heap' = Collect(objs1, store, pc', req')

\* lines 122-130: generate_response builds its messages from the history of
\* the session dict the call holds and calls the provider
CallGenerator(p, r, store, objs) ==
  LET history == objs[r.session].conversation_history
  IN  /\ sessions' = store
      /\ pc' = [pc EXCEPT ![p] = "generate_response"]
      /\ req' = [req EXCEPT ![p] =
                   [r EXCEPT !.gen_invoked = TRUE,
                             !.sent = generate_response_messages(
                                        r.message, history, r.language)]]
      /\ out' = NoOut
      /\ heap' = Collect(objs, store, pc', req')

\* line 118: if is_crisis ... else ...
AfterDetect(p, r, store, objs) ==
  IF r.is_crisis THEN CrisisTurn(p, r, store, objs) ELSE CallGenerator(p, r, store, objs)

\* lines 106-116: the session is created or found, its language is set and
\* detect_crisis runs its keyword stage; with a keyword the verdict is there
\* at once, without one the call waits for the model stage.
\* A request takes the first free slot.
PM_Start(p, message, sid, language) ==
  /\ pc[p] = "idle"
  /\ \A q \in 1..(p - 1) : pc[q] # "idle"
  /\ ncalls < MaxCalls
  /\ LET create == Falsy(sid) \/ sid \notin DOMAIN sessions
         session_id == IF create THEN GeneratedId(clock) ELSE sid
         made == IF create
                 THEN create_session(sessions, heap, FreshRef(heap), session_id, clock)
                 ELSE [store |-> sessions, objs |-> heap]
         objs1 == update_session_language(made.store, made.objs, session_id, language)
         r == [NoReq EXCEPT !.message = message, !.supplied = sid,
                            !.session_id = session_id, !.language = language,
                            !.session = made.store[session_id], !.slot = p]
     IN  /\ ncalls' = ncalls + 1
         /\ UNCHANGED clock
         /\ IF detect_crisis_keyword(message)
            THEN AfterDetect(p, [r EXCEPT !.is_crisis = TRUE], made.store, objs1)
            ELSE /\ sessions' = made.store
                 /\ pc' = [pc EXCEPT ![p] = "detect_crisis"]
                 /\ req' = [req EXCEPT ![p] = [r EXCEPT !.model_invoked = TRUE]]
                 /\ out' = NoOut
                 /\ heap' = Collect(objs1, made.store, pc', req')

\* line 116: the model stage of detect_crisis answers and gives the verdict
PM_CrisisModel(p, outcome) ==
  /\ pc[p] = "detect_crisis"
  /\ UNCHANGED <<ncalls, clock>>
  /\ AfterDetect(p, [req[p] EXCEPT !.is_crisis = detect_crisis_model(outcome)],
                 sessions, heap)

\* lines 126-144: the Dialogue Generator answers or fails
PM_Generate(p, outcome) ==
  /\ pc[p] = "generate_response"
  /\ UNCHANGED <<ncalls, clock>>
  /\ IF generate_response_raises(outcome)
     THEN /\ pc' = [pc EXCEPT ![p] = "idle"]
          /\ req' = [req EXCEPT ![p] = NoReq]
          /\ out' = [NoOut EXCEPT !.op = "process_message", !.status = "error",
                                  !.call = [req[p] EXCEPT !.session = NoRef]]
          /\ heap' = Collect(heap, sessions, pc', req')
          /\ UNCHANGED sessions
     ELSE ReturnTurn(p, req[p], sessions, heap, generate_response_result(outcome))

\* TherapyService.clear_session, reached from DELETE /session/{id}
ClearSession(id) ==
  /\ sessions' = clear_session(sessions, id)
  /\ heap' = Collect(heap, sessions', pc, req)
  /\ out' = [NoOut EXCEPT !.op = "clear_session", !.session_id = id,
                          !.status = IF id \in DOMAIN sessions THEN "deleted" ELSE "absent"]
  /\ UNCHANGED <<clock, pc, req, ncalls>>

\* TherapyService.get_conversation_history, reached from GET /session/{id}/history
GetHistory(id) ==
  /\ out' = [NoOut EXCEPT !.op = "get_conversation_history", !.status = "ok",
                          !.session_id = id,
                          !.history = get_conversation_history(sessions, heap, id)]
  /\ UNCHANGED <<sessions, heap, clock, pc, req, ncalls>>

\* datetime.now() moves on
Tick ==
  /\ clock < MaxClock
  /\ clock' = clock + 1
  /\ out' = NoOut
  /\ UNCHANGED <<sessions, heap, pc, req, ncalls>>

-----------------------------------------------------------------------------
(* The states the store starts from: empty, or holding one session with    *)
(* the turns of earlier benign calls: one call, or as many as fill it to   *)
(* just below, or to, the 20-turn cap                                      *)

InitialPairs == {1, MaxHistory \div 2 - 1, MaxHistory \div 2}

EarlierTurns(n) ==
  [i \in 1..(2 * n) |->
     IF i % 2 = 1 THEN Turn("user", <<"h","i">>, 0)
     ELSE Turn("assistant", <<"o","k">>, 0)]

SessionsIdle ==
  /\ pc = [p \in Slots |-> "idle"]
  /\ req = [p \in Slots |-> NoReq]
  /\ ncalls = 0
  /\ out = NoOut

SessionsInit ==
  /\ SessionsIdle
  /\ \/ /\ sessions = <<>>
        /\ heap = <<>>
        /\ clock = 0
     \/ \E n \in InitialPairs :
          /\ sessions = (GeneratedId(0) :> 0)
          /\ heap = (0 :> [id |-> GeneratedId(0), created_at |-> 0,
                           conversation_history |-> EarlierTurns(n),
                           language |-> "en", crisis_detected |-> FALSE])
          /\ clock = 1

SessionsUnused ==
  /\ SessionsIdle
  /\ sessions = <<>>
  /\ heap = <<>>
  /\ clock = 0

-----------------------------------------------------------------------------
(* EmotionService.analyze_emotion and its cache *)

\* Numbers between 0.0 and 1.0 are counted in tenths: 5 is 0.5.
Tenth == 10

\* emotion_schemas.py lines 7-14: the fields of EmotionAnalysis and the
\* range constraints (ge=0.0, le=1.0) it validates
ValidEmotionAnalysis(d) ==
  /\ {"primary_emotion", "intensity", "confidence", "recommended_style",
      "recommended_pace"} \subseteq DOMAIN d
  /\ d.intensity \in 0..Tenth
  /\ d.confidence \in 0..Tenth
  /\ d.crisis_level \in 0..Tenth

\* lines 213-221
_get_neutral_emotion ==
  [primary_emotion |-> <<"n","e","u","t","r","a","l">>, intensity |-> 5, confidence |-> 5,
   recommended_style |-> "friendly", recommended_pace |-> "normal",
   key_concerns |-> <<>>, crisis_level |-> 0]

\* The objects a model response can parse to: two that satisfy the schema,
\* one whose intensity is out of range and one without recommended_pace.
EmotionData ==
  { [primary_emotion |-> <<"a","n","x","i","o","u","s">>, intensity |-> 8, confidence |-> 9,
     recommended_style |-> "empathetic", recommended_pace |-> "slow",
     key_concerns |-> <<"exams">>, crisis_level |-> 1],
    [primary_emotion |-> <<"h","a","p","p","y">>, intensity |-> 2, confidence |-> 7,
     recommended_style |-> "cheerful", recommended_pace |-> "normal",
     key_concerns |-> <<>>, crisis_level |-> 0],
    [primary_emotion |-> <<"a","n","g","r","y">>, intensity |-> 12, confidence |-> 9,
     recommended_style |-> "calm", recommended_pace |-> "slow",
     key_concerns |-> <<>>, crisis_level |-> 0],
    [primary_emotion |-> <<"s","a","d">>, intensity |-> 6, confidence |-> 9,
     recommended_style |-> "gentle",
     key_concerns |-> <<>>, crisis_level |-> 0] }

\* What the provider call can do: raise, answer with text that is no JSON,
\* or answer with a JSON object.
EmotionOutcomes ==
  { [kind |-> "error", data |-> _get_neutral_emotion],
    [kind |-> "not_json", data |-> _get_neutral_emotion] }
    \cup { [kind |-> "json", data |-> d] : d \in EmotionData }

\* the answer of a call that found its text in the cache: there is none
NoEmotionOutcome == [kind |-> "cached", data |-> _get_neutral_emotion]

\* variant: the parsed object is not validated
analysis_succeeds_unvalidated(outcome) == outcome.kind = "json"

\* lines 82-85 and 93-101: json.loads and EmotionAnalysis(**emotion_data)
\* succeed, or an exception is caught
analysis_succeeds(outcome) == outcome.kind = "json" /\ ValidEmotionAnalysis(outcome.data)

\* variant: nothing is stored
cache_store_none(cache, user_message, emotion_analysis) == cache

\* lines 88-89: self._emotion_cache[user_message] = emotion_analysis
cache_store(cache, user_message, emotion_analysis) ==
  [t \in DOMAIN cache \cup {user_message} |->
     IF t = user_message THEN emotion_analysis ELSE cache[t]]

\* lines 33: use_cache and user_message in self._emotion_cache
cache_hit(cache, user_message, use_cache) ==
  use_cache /\ user_message \in DOMAIN cache

EmotionTexts == { <<"h","i">>, <<"s","a","d">> }

NoEReq == [text |-> <<>>, use_cache |-> TRUE]

NoEOut ==
  [op |-> "none", text |-> <<>>, use_cache |-> TRUE, analysis |-> _get_neutral_emotion,
   from_cache |-> FALSE, model_invoked |-> FALSE, fallback |-> FALSE,
   outcome |-> NoEmotionOutcome]

NoLast ==
  [done |-> FALSE, use_cache |-> TRUE, analysis |-> _get_neutral_emotion,
   fallback |-> FALSE]

\* a call returns: the result, and the record of how the call on this text ended
AE_Return(p, text, use_cache, analysis, from_cache, fallback, outcome) ==
  /\ epc' = [epc EXCEPT ![p] = "idle"]
  /\ ereq' = [ereq EXCEPT ![p] = NoEReq]
  /\ eout' = [op |-> "analyze_emotion", text |-> text, use_cache |-> use_cache,
              analysis |-> analysis, from_cache |-> from_cache,
              model_invoked |-> ~from_cache, fallback |-> fallback,
              outcome |-> outcome]
  /\ elast' = [elast EXCEPT ![text] =
                 [done |-> TRUE, use_cache |-> use_cache, analysis |-> analysis,
                  fallback |-> fallback]]

\* lines 33-55: the cache is looked up; on a miss the provider is called
AE_Start(p, text, use_cache) ==
  /\ epc[p] = "idle"
  /\ \A q \in 1..(p - 1) : epc[q] # "idle"
  /\ ecalls < MaxEmotionCalls
  /\ ecalls' = ecalls + 1
  /\ UNCHANGED emotion_cache
  /\ IF cache_hit(emotion_cache, text, use_cache)
     THEN AE_Return(p, text, use_cache, emotion_cache[text], TRUE, FALSE,
                    NoEmotionOutcome)
     ELSE /\ epc' = [epc EXCEPT ![p] = "model"]
          /\ ereq' = [ereq EXCEPT ![p] = [text |-> text, use_cache |-> use_cache]]
          /\ eout' = NoEOut
          /\ UNCHANGED elast

\* variant: the neutral analysis of a failure is cached too
AE_Reply_fallback_cached(p, outcome) ==
  /\ epc[p] = "model"
  /\ UNCHANGED ecalls
  /\ LET analysis == IF analysis_succeeds(outcome) THEN outcome.data
                      ELSE _get_neutral_emotion
     IN  /\ emotion_cache' = IF ereq[p].use_cache
                              THEN cache_store(emotion_cache, ereq[p].text, analysis)
                              ELSE emotion_cache
         /\ AE_Return(p, ereq[p].text, ereq[p].use_cache, analysis, FALSE,
                      ~analysis_succeeds(outcome), outcome)

\* lines 55-101: the provider answers or fails; a parsed analysis is cached
\* and returned, any failure gives the neutral analysis
AE_Reply(p, outcome) ==
  /\ epc[p] = "model"
  /\ UNCHANGED ecalls
  /\ IF analysis_succeeds(outcome)
     THEN /\ emotion_cache' = IF ereq[p].use_cache
                              THEN cache_store(emotion_cache, ereq[p].text, outcome.data)
                              ELSE emotion_cache
          /\ AE_Return(p, ereq[p].text, ereq[p].use_cache, outcome.data, FALSE, FALSE,
                       outcome)
     ELSE /\ UNCHANGED emotion_cache
          /\ AE_Return(p, ereq[p].text, ereq[p].use_cache, _get_neutral_emotion,
                       FALSE, TRUE, outcome)

\* lines 223-225: clear_cache
AE_ClearCache ==
  /\ emotion_cache' = <<>>
  /\ elast' = [t \in EmotionTexts |-> NoLast]
  /\ eout' = NoEOut
  /\ UNCHANGED <<epc, ereq, ecalls>>

EmotionInit ==
  /\ emotion_cache = <<>>
  /\ epc = [p \in Slots |-> "idle"]
  /\ ereq = [p \in Slots |-> NoEReq]
  /\ eout = NoEOut
  /\ elast = [t \in EmotionTexts |-> NoLast]
  /\ ecalls = 0

-----------------------------------------------------------------------------
(* EmotionService.emotion_to_voice_parameters *)

\* Rates are counted in hundredths: 95 is 0.95.
Hundredth == 100

\* A rate is a float.  The double of a decimal such as 0.95 is not that
\* decimal but lies just below or above it, and int() in text_to_speech
\* truncates, so the side matters.  A rate is therefore held in units of
\* 1/Fine of a hundredth: Exact(h) is a double equal to h hundredths (1.0,
\* 0.75), Below(h) and Above(h) are the doubles nearest to h hundredths that
\* lie below it (0.95, 0.97, 1.2) and above it (0.05, 0.9, 1.03, 1.1).  Sums
\* and differences are taken on these values: 0.95 - 0.05 lies below 0.9
\* (0.8999999999999999), 0.95 + 0.05 is 1.0.
Fine == 1000

Exact(h) == h * Fine

Below(h) == h * Fine - 1

Above(h) == h * Fine + 1

\* the number of hundredths nearest to a rate
Nominal(v) == (v + Fine \div 2) \div Fine

\* lines 114-187: emotion_map, built anew by every call
emotion_map ==
  <<"a","n","x","i","o","u","s">> :> [style |-> "empathetic", rate |-> Below(95), pitch |-> <<"-","1","%">>, volume |-> "medium",
      pause_duration |-> 300, emphasis_level |-> "moderate"] @@
  <<"s","a","d">> :> [style |-> "empathetic", rate |-> Below(97), pitch |-> <<"-","1","%">>, volume |-> "medium",
      pause_duration |-> 300, emphasis_level |-> "moderate"] @@
  <<"d","e","p","r","e","s","s","e","d">> :> [style |-> "empathetic", rate |-> Below(95), pitch |-> <<"-","1","%">>, volume |-> "medium",
      pause_duration |-> 300, emphasis_level |-> "moderate"] @@
  <<"a","n","g","r","y">> :> [style |-> "calm", rate |-> Below(95), pitch |-> <<"-","1","%">>, volume |-> "medium",
      pause_duration |-> 300, emphasis_level |-> "moderate"] @@
  <<"s","t","r","e","s","s","e","d">> :> [style |-> "supportive", rate |-> Below(97), pitch |-> <<"-","1","%">>, volume |-> "medium",
      pause_duration |-> 300, emphasis_level |-> "moderate"] @@
  <<"f","e","a","r","f","u","l">> :> [style |-> "gentle", rate |-> Below(97), pitch |-> <<"0","%">>, volume |-> "medium",
      pause_duration |-> 300, emphasis_level |-> "moderate"] @@
  <<"h","a","p","p","y">> :> [style |-> "cheerful", rate |-> Above(103), pitch |-> <<"+","1","%">>, volume |-> "medium",
      pause_duration |-> 250, emphasis_level |-> "moderate"] @@
  <<"h","o","p","e","f","u","l">> :> [style |-> "friendly", rate |-> Exact(100), pitch |-> <<"0","%">>, volume |-> "medium",
      pause_duration |-> 300, emphasis_level |-> "moderate"] @@
  <<"n","e","u","t","r","a","l">> :> [style |-> "friendly", rate |-> Exact(100), pitch |-> <<"0","%">>, volume |-> "medium",
      pause_duration |-> 300, emphasis_level |-> "moderate"]

\* emotion_schemas.py lines 17-24: the defaults of VoiceParameters
DefaultVoiceParameters ==
  [style |-> "friendly", rate |-> Exact(100), pitch |-> <<"0","%">>, volume |-> "medium",
   pause_duration |-> 300, emphasis_level |-> "moderate"]

\* variant: the emotion is looked up as it is spelled
base_params_cased(primary_emotion) ==
  IF primary_emotion \in DOMAIN emotion_map
  THEN emotion_map[primary_emotion]
  ELSE emotion_map[<<"n","e","u","t","r","a","l">>]

\* lines 190-193: emotion_map.get(emotion.primary_emotion.lower(), emotion_map["neutral"])
base_params(primary_emotion) ==
  IF Lower(primary_emotion) \in DOMAIN emotion_map
  THEN emotion_map[Lower(primary_emotion)]
  ELSE emotion_map[<<"n","e","u","t","r","a","l">>]

Max(a, b) == IF a >= b THEN a ELSE b

\* variant: an intensity of 0.7 already counts as high, one of 0.3 as low
adjust_for_intensity_inclusive(params, intensity) ==
  IF intensity * 10 >= 7 * Tenth
  THEN [params EXCEPT
          !.rate = IF @ < Exact(Hundredth) THEN Max(Exact(75), @ - Above(5)) ELSE @,
          !.pause_duration = (@ * 12) \div 10]
  ELSE IF intensity * 10 <= 3 * Tenth
  THEN [params EXCEPT
          !.rate = IF @ + Above(5) <= Exact(Hundredth) THEN @ + Above(5) ELSE Exact(Hundredth),
          !.pause_duration = (@ * 8) \div 10]
  ELSE params

\* lines 196-207: the copy of the base entry, adjusted for the intensity;
\* int(p * 1.2) and int(p * 0.8) are the truncated products
adjust_for_intensity(params, intensity) ==
  IF intensity * 10 > 7 * Tenth
  THEN [params EXCEPT
          !.rate = IF @ < Exact(Hundredth) THEN Max(Exact(75), @ - Above(5)) ELSE @,
          !.pause_duration = (@ * 12) \div 10]
  ELSE IF intensity * 10 < 3 * Tenth
  THEN [params EXCEPT
          !.rate = IF @ + Above(5) <= Exact(Hundredth) THEN @ + Above(5) ELSE Exact(Hundredth),
          !.pause_duration = (@ * 8) \div 10]
  ELSE params

\* lines 103-209
emotion_to_voice_parameters(emotion) ==
  adjust_for_intensity(base_params(emotion.primary_emotion), emotion.intensity)

\* The analyses the mapper is called on: every listed emotion, some of them
\* in other letter cases, unlisted ones, and every intensity in tenths.
MapperEmotions ==
  DOMAIN emotion_map
    \cup { Upper(<<"h","a","p","p","y">>), Upper(<<"s","a","d">>),
           <<"A","n","x","i","o","u","s">>, <<"j","o","y">>, <<"c","a","l","m">> }

MapperProfiles ==
  { [_get_neutral_emotion EXCEPT !.primary_emotion = e, !.intensity = i] :
      e \in MapperEmotions, i \in 0..Tenth }

NoMOut == [op |-> "none", emotion |-> _get_neutral_emotion,
           params |-> DefaultVoiceParameters]

\* one call of emotion_to_voice_parameters
MapEmotion(emotion) ==
  /\ mcalls < MaxMapCalls
  /\ mcalls' = mcalls + 1
  /\ mout' = [op |-> "emotion_to_voice_parameters", emotion |-> emotion,
              params |-> emotion_to_voice_parameters(emotion)]
  /\ mseen' = IF emotion \in DOMAIN mseen
              THEN mseen
              ELSE mseen @@ (emotion :> mout'.params)

MapperInit ==
  /\ mout = NoMOut
  /\ mseen = <<>>
  /\ mcalls = 0

-----------------------------------------------------------------------------
(* TTSService.text_to_speech *)

\* an argument that is None
None == [none |-> TRUE]

IsNone(x) == "none" \in DOMAIN x

\* lines 39-50
voice_options ==
  "hi" :> <<"hi-IN-SwaraNeural", "hi-IN-MadhurNeural">> @@
  "en" :> <<"en-US-AriaNeural", "en-US-JennyNeural">> @@
  "es" :> <<"es-ES-ElviraNeural", "es-MX-DaliaNeural">> @@
  "fr" :> <<"fr-FR-DeniseNeural", "fr-CA-SylvieNeural">> @@
  "de" :> <<"de-DE-KatjaNeural", "de-DE-ConradNeural">> @@
  "pt" :> <<"pt-BR-FranciscaNeural", "pt-PT-RaquelNeural">> @@
  "it" :> <<"it-IT-ElsaNeural", "it-IT-DiegoNeural">> @@
  "ja" :> <<"ja-JP-NanamiNeural", "ja-JP-KeitaNeural">> @@
  "ko" :> <<"ko-KR-SunHiNeural", "ko-KR-InJoonNeural">> @@
  "zh" :> <<"zh-CN-XiaoxiaoNeural", "zh-CN-YunxiNeural">>

\* line 53: voice_options.get(language, ["en-US-AriaNeural"])
voices_to_try(language) ==
  IF language \in DOMAIN voice_options
  THEN voice_options[language]
  ELSE <<"en-US-AriaNeural">>

DigitChars == <<"0","1","2","3","4","5","6","7","8","9">>

\* the decimal digits of a natural number
RECURSIVE Decimal(_)
Decimal(n) ==
  IF n < 10 THEN <<DigitChars[n + 1]>>
  ELSE Decimal(n \div 10) \o <<DigitChars[(n % 10) + 1]>>

\* format(n, "+d")
SignedDecimal(n) ==
  IF n < 0 THEN <<"-">> \o Decimal(0 - n) ELSE <<"+">> \o Decimal(n)

\* int(s) for a text of an optional sign and digits; [ok |-> FALSE] stands
\* for the ValueError of any other text
RECURSIVE DigitsValue(_)
DigitsValue(d) ==
  IF d = <<>> THEN 0
  ELSE 10 * DigitsValue(SubSeq(d, 1, Len(d) - 1)) + (CharIndex(d[Len(d)], DigitChars) - 1)

ParseInt(text) ==
  LET t == Strip(text)
      signed == t # <<>> /\ t[1] \in {"+", "-"}
      d == IF signed THEN Tail(t) ELSE t
  IN  IF d # <<>> /\ \A k \in 1..Len(d) : \E i \in 1..Len(DigitChars) : DigitChars[i] = d[k]
      THEN [ok |-> TRUE,
            value |-> IF signed /\ t[1] = "-" THEN 0 - DigitsValue(d) ELSE DigitsValue(d)]
      ELSE [ok |-> FALSE, value |-> 0]

\* pitch.replace("%", "")
RemovePercent(text) == SelectSeq(text, LAMBDA c : c # "%")

\* lines 70-71: int((rate - 1.0) * 100), the percentage truncated towards
\* zero: 1.1 gives 10, 1.2 (a double below 1.2) gives 19, 0.9 gives -9
rate_str(voice_params) ==
  LET d == voice_params.rate - Exact(Hundredth)
      rate_percent == IF d >= 0 THEN d \div Fine ELSE 0 - ((0 - d) \div Fine)
  IN  IF rate_percent # 0 THEN SignedDecimal(rate_percent) \o <<"%">>
      ELSE <<"+","0","%">>

\* lines 75-81
pitch_str(voice_params) ==
  LET parsed == ParseInt(RemovePercent(voice_params.pitch))
      pitch_hz == parsed.value * 5
  IN  IF parsed.ok /\ pitch_hz # 0 THEN SignedDecimal(pitch_hz) \o <<"H","z">>
      ELSE <<"+","0","H","z">>

\* lines 84-85
volume_str(voice_params) ==
  CASE voice_params.volume = "soft" -> <<"-","2","0","%">>
    [] voice_params.volume = "loud" -> <<"+","2","0","%">>
    [] OTHER -> <<"+","0","%">>

\* lines 65 and 99-105: what edge_tts.Communicate is given for one voice;
\* the text is the plain text
communicate_call(text, voice, voice_params) ==
  [tts_text |-> text, voice |-> voice, rate |-> rate_str(voice_params),
   pitch |-> pitch_str(voice_params), volume |-> volume_str(voice_params)]

\* What one attempt can do: the provider raises, or it writes a file of
\* some or of no bytes.
SynthesisOutcomes ==
  { [kind |-> "raise", error |-> "NoAudioReceived", audio |-> <<>>],
    [kind |-> "raise", error |-> "ConnectionError", audio |-> <<>>],
    [kind |-> "audio", error |-> "", audio |-> <<>>],
    [kind |-> "audio", error |-> "", audio |-> <<73, 68, 51>>] }

\* lines 106-114: the error of the attempt, "" for none
attempt_error(outcome) ==
  IF outcome.kind = "raise" THEN outcome.error
  ELSE IF Len(outcome.audio) = 0 THEN "No audio data generated"
  ELSE ""

\* line 116: the audio data, base64 encoded
b64encode(audio) == [base64 |-> audio]

\* line 132
all_voices_failed(last_error) ==
  [message |-> "Error generating speech after trying all voices: ", cause |-> last_error]

TTSIdle ==
  [pc |-> "idle", text |-> <<>>, language |-> "", voice_params |-> DefaultVoiceParameters,
   given |-> FALSE, use_ssml |-> TRUE, voices |-> <<>>, i |-> 0, failed |-> <<>>,
   sent |-> <<>>, got |-> <<>>, last_error |-> "", audio |-> b64encode(<<>>),
   raised |-> all_voices_failed(""), calls |-> 0]

\* lines 53-106: the call up to the provider call for the first voice
text_to_speech_call(t, text, language, voice_params, use_ssml) ==
  LET vp == IF IsNone(voice_params) THEN DefaultVoiceParameters ELSE voice_params
      voices == voices_to_try(language)
  IN  [TTSIdle EXCEPT !.pc = "attempt", !.text = text, !.language = language,
                      !.voice_params = vp, !.given = ~IsNone(voice_params),
                      !.use_ssml = use_ssml, !.voices = voices, !.i = 1,
                      !.sent = <<communicate_call(text, voices[1], vp)>>,
                      !.calls = t.calls + 1]

\* variant: a voice that fails ends the loop
text_to_speech_attempt_once(t, outcome) ==
  LET error == attempt_error(outcome)
  IN  IF error = ""
      THEN [t EXCEPT !.pc = "returned", !.got = Append(@, outcome),
                     !.audio = b64encode(outcome.audio)]
      ELSE [t EXCEPT !.pc = "raised", !.got = Append(@, outcome), !.last_error = error,
                     !.failed = Append(@, [voice |-> t.voices[t.i], error |-> error]),
                     !.raised = all_voices_failed(error)]

\* variant: the error raised in the end is that of the first voice
text_to_speech_attempt_first(t, outcome) ==
  LET error == attempt_error(outcome)
      failed == Append(t.failed, [voice |-> t.voices[t.i], error |-> error])
  IN  IF error = ""
      THEN [t EXCEPT !.pc = "returned", !.got = Append(@, outcome),
                     !.audio = b64encode(outcome.audio)]
      ELSE IF t.i < Len(t.voices)
      THEN [t EXCEPT !.i = t.i + 1, !.got = Append(@, outcome),
                     !.last_error = error, !.failed = failed,
                     !.sent = Append(@, communicate_call(t.text, t.voices[t.i + 1],
                                                         t.voice_params))]
      ELSE [t EXCEPT !.pc = "raised", !.got = Append(@, outcome),
                     !.last_error = error, !.failed = failed,
                     !.raised = all_voices_failed(failed[1].error)]

\* lines 106-132: the provider call for the current voice ends; the audio is
\* returned, or the error is kept and the next voice is tried, or none is
\* left; `got` keeps what each provider call did
text_to_speech_attempt(t, outcome) ==
  LET error == attempt_error(outcome)
      failed == Append(t.failed, [voice |-> t.voices[t.i], error |-> error])
  IN  IF error = ""
      THEN [t EXCEPT !.pc = "returned", !.got = Append(@, outcome),
                     !.audio = b64encode(outcome.audio)]
      ELSE IF t.i < Len(t.voices)
      THEN [t EXCEPT !.i = t.i + 1, !.got = Append(@, outcome),
                     !.last_error = error, !.failed = failed,
                     !.sent = Append(@, communicate_call(t.text, t.voices[t.i + 1],
                                                         t.voice_params))]
      ELSE [t EXCEPT !.pc = "raised", !.got = Append(@, outcome),
                     !.last_error = error, !.failed = failed,
                     !.raised = all_voices_failed(error)]

TTSTexts == { <<"o","k">>, <<"I"," ","h","e","a","r",","," ","y","o","u",".">> }

TTSLanguages == {"en", "hi", "zh", "xx", "english"}

TTSVoiceParameters ==
  { None, emotion_map[<<"h","a","p","p","y">>],
    [emotion_map[<<"s","a","d">>] EXCEPT !.rate = Below(97) - Above(5),
                                       !.pause_duration = 360],
    [DefaultVoiceParameters EXCEPT !.rate = Above(110), !.pitch = <<"-","3","%">>,
                                   !.volume = "soft"],
    [DefaultVoiceParameters EXCEPT !.rate = Below(120), !.pitch = <<"h","i","g","h">>,
                                   !.volume = "loud"],
    [DefaultVoiceParameters EXCEPT !.rate = Above(90), !.pitch = <<"+","2","%">>,
                                   !.volume = "quiet"] }

\* a call of text_to_speech
TTS_Call(text, language, voice_params, use_ssml) ==
  /\ tts.pc # "attempt"
  /\ tts.calls < MaxTTSCalls
  /\ tts' = text_to_speech_call(tts, text, language, voice_params, use_ssml)

\* the provider call of the running text_to_speech ends
TTS_Attempt(outcome) ==
  /\ tts.pc = "attempt"
  /\ tts' = text_to_speech_attempt(tts, outcome)

TTSInit == tts = TTSIdle

-----------------------------------------------------------------------------
(* TherapyService.process_voice_message *)

\* line 178: the codes an explicit language is accepted from
VoiceLanguageCodes == {"en", "hi", "es", "fr", "de", "pt", "it", "ja", "ko", "zh"}

\* stt_service.py lines 54-63.  What the transcription call can do: raise, or
\* give a text, with or without a language attribute.
TranscriptionOutcomes ==
  { [kind |-> "error", text |-> <<>>, has_language |-> FALSE, language |-> ""] }
    \cup { [kind |-> "ok", text |-> m, has_language |-> TRUE, language |-> l] :
             m \in Messages, l \in {"en", "hindi"} }
    \cup { [kind |-> "ok", text |-> m, has_language |-> FALSE, language |-> ""] :
             m \in Messages }

\* `language or "en"`; an absent language and an empty one are both ""
OrEn(language) == IF language = "" THEN "en" ELSE language

\* stt_service.py lines 57-63: getattr(transcription, 'language', language or 'en')
transcribe_audio_result(outcome, language) ==
  [text |-> outcome.text,
   language |-> IF outcome.has_language THEN outcome.language ELSE OrEn(language)]

\* variant: an explicit language is taken whatever it is
effective_language_any(language, reported) ==
  IF language # "" THEN language ELSE reported

\* lines 175-179
effective_language(language, reported) ==
  IF language # "" /\ language \in VoiceLanguageCodes THEN language ELSE reported

NoResponseData ==
  [transcription |-> <<>>, response |-> <<>>, audio_base64 |-> b64encode(<<>>),
   session_id |-> NoneId, is_crisis |-> FALSE, language |-> ""]

\* lines 219-234: the result, with an emotion entry when there is an analysis
response_data(transcription, result, audio, language, emotion_analysis, voice_params) ==
  LET data == [transcription |-> transcription, response |-> result.response,
               audio_base64 |-> audio, session_id |-> result.session_id,
               is_crisis |-> result.is_crisis, language |-> language]
  IN  IF IsNone(emotion_analysis) THEN data
      ELSE data @@ ("emotion" :>
             [primary |-> emotion_analysis.primary_emotion,
              intensity |-> emotion_analysis.intensity,
              style_used |-> IF IsNone(voice_params) THEN "neutral"
                             ELSE voice_params.style])

NoVoice ==
  [pc |-> "idle", calls |-> 0, language |-> "", session_id |-> NoneId,
   transcript |-> <<>>, reported |-> "", detected_language |-> "",
   emotion_analysis |-> None, emotion_outcome |-> NoEmotionOutcome,
   voice_params |-> None, stages |-> <<>>, response_data |-> NoResponseData,
   error |-> ""]

VoiceLanguages == {"", "es", "xx"}

\* steps of the voice turn that do not touch the session store
StoreUntouched ==
  /\ out' = NoOut
  /\ UNCHANGED <<sessions, heap, clock, pc, req, ncalls>>

\* steps of the voice turn that do not touch the analyzer
AnalyzerUntouched ==
  /\ eout' = NoEOut
  /\ UNCHANGED <<emotion_cache, epc, ereq, elast, ecalls>>

\* line 238-239: the turn ends with the wrapped error
VoiceRaises(v, error) == [v EXCEPT !.pc = "raised", !.error = error]

\* the stage of the Dialogue Generator, once process_message has invoked it
WithGenerate(stages, invoked) ==
  IF invoked /\ \A k \in 1..Len(stages) : stages[k] # "generate_response"
  THEN Append(stages, "generate_response")
  ELSE stages

\* variant: in a crisis turn no voice parameters are mapped
AfterProcessMessage_crisis_unmapped(v) ==
  IF out'.op = "process_message" /\ out'.status = "ok"
  THEN LET voice_params ==
             IF IsNone(v.emotion_analysis) \/ out'.result.is_crisis THEN None
             ELSE emotion_to_voice_parameters(v.emotion_analysis)
           mapped == IF IsNone(v.emotion_analysis) \/ out'.result.is_crisis THEN <<>>
                     ELSE <<"emotion_to_voice_parameters">>
       IN  /\ vturn' = [v EXCEPT !.pc = "text_to_speech",
                                 !.voice_params = voice_params,
                                 !.response_data =
                                    [NoResponseData EXCEPT
                                       !.response = out'.result.response,
                                       !.session_id = out'.result.session_id,
                                       !.is_crisis = out'.result.is_crisis],
                                 !.stages = WithGenerate(@, out'.call.gen_invoked)
                                              \o mapped \o <<"text_to_speech">>]
           /\ TTS_Call(out'.result.response, v.detected_language, voice_params, TRUE)
  ELSE IF out'.op = "process_message"
  THEN /\ vturn' = VoiceRaises([v EXCEPT !.stages = WithGenerate(@, TRUE)],
                               "Error processing voice message: Error processing message")
       /\ UNCHANGED tts
  ELSE /\ vturn' = [v EXCEPT !.pc = "process_message",
                             !.stages = WithGenerate(@, req'[1].gen_invoked)]
       /\ UNCHANGED tts

\* lines 201-216, run with the step of process_message that the same step
\* takes: with its result the voice parameters are mapped and text_to_speech
\* is called; with its error the turn ends; else the turn waits for it
AfterProcessMessage(v) ==
  IF out'.op = "process_message" /\ out'.status = "ok"
  THEN LET voice_params ==
             IF IsNone(v.emotion_analysis) THEN None
             ELSE emotion_to_voice_parameters(v.emotion_analysis)
           mapped == IF IsNone(v.emotion_analysis) THEN <<>>
                     ELSE <<"emotion_to_voice_parameters">>
       IN  /\ vturn' = [v EXCEPT !.pc = "text_to_speech",
                                 !.voice_params = voice_params,
                                 !.response_data =
                                    [NoResponseData EXCEPT
                                       !.response = out'.result.response,
                                       !.session_id = out'.result.session_id,
                                       !.is_crisis = out'.result.is_crisis],
                                 !.stages = WithGenerate(@, out'.call.gen_invoked)
                                              \o mapped \o <<"text_to_speech">>]
           /\ TTS_Call(out'.result.response, v.detected_language, voice_params, TRUE)
  ELSE IF out'.op = "process_message"
  THEN /\ vturn' = VoiceRaises([v EXCEPT !.stages = WithGenerate(@, TRUE)],
                               "Error processing voice message: Error processing message")
       /\ UNCHANGED tts
  ELSE /\ vturn' = [v EXCEPT !.pc = "process_message",
                             !.stages = WithGenerate(@, req'[1].gen_invoked)]
       /\ UNCHANGED tts

\* lines 186-199: analyze_emotion has returned; process_message is called
WithEmotion(v, analysis, outcome) ==
  /\ PM_Start(1, v.transcript, v.session_id, v.detected_language)
  /\ AfterProcessMessage([v EXCEPT !.emotion_analysis = analysis,
                                   !.emotion_outcome = outcome,
                                   !.stages = Append(@, "detect_crisis")])

\* lines 166-172: a voice turn starts and calls the transcription provider
V_Start(language, sid) ==
  /\ vturn.pc \in {"idle", "returned", "raised"}
  /\ vturn.calls < MaxVoiceCalls
  /\ ncalls < MaxCalls
  /\ ecalls < MaxEmotionCalls
  /\ tts.calls < MaxTTSCalls
  /\ vturn' = [NoVoice EXCEPT !.pc = "transcribe", !.calls = vturn.calls + 1,
                              !.language = language, !.session_id = sid,
                              !.stages = <<"transcribe_audio">>]
  /\ StoreUntouched
  /\ AnalyzerUntouched
  /\ UNCHANGED tts

\* lines 168-199: the transcription ends; the language is settled and
\* analyze_emotion is called, which answers from its cache or calls its model
V_Transcribed(outcome) ==
  /\ vturn.pc = "transcribe"
  /\ IF outcome.kind = "error"
     THEN /\ vturn' = VoiceRaises(vturn,
                        "Error processing voice message: Error transcribing audio")
          /\ StoreUntouched
          /\ AnalyzerUntouched
          /\ UNCHANGED tts
     ELSE LET result == transcribe_audio_result(outcome, vturn.language)
              v == [vturn EXCEPT
                      !.transcript = result.text,
                      !.reported = result.language,
                      !.detected_language =
                         effective_language(vturn.language, result.language),
                      !.stages = Append(@, "analyze_emotion")]
          IN  /\ AE_Start(1, result.text, TRUE)
              /\ IF eout'.op = "analyze_emotion"
                 THEN WithEmotion(v, eout'.analysis, eout'.outcome)
                 ELSE /\ vturn' = [v EXCEPT !.pc = "analyze_emotion"]
                      /\ StoreUntouched
                      /\ UNCHANGED tts

\* lines 187-199: the model of analyze_emotion answers
V_EmotionReply(outcome) ==
  /\ vturn.pc = "analyze_emotion"
  /\ AE_Reply(1, outcome)
  /\ WithEmotion(vturn, eout'.analysis, eout'.outcome)

\* lines 195-216: the crisis model stage of the turn's process_message answers
V_CrisisModel(outcome) ==
  /\ vturn.pc = "process_message"
  /\ PM_CrisisModel(1, outcome)
  /\ AfterProcessMessage(vturn)
  /\ AnalyzerUntouched

\* lines 195-216: the Dialogue Generator of the turn's process_message answers
V_Generate(outcome) ==
  /\ vturn.pc = "process_message"
  /\ PM_Generate(1, outcome)
  /\ AfterProcessMessage(vturn)
  /\ AnalyzerUntouched

\* lines 211-239: an attempt of text_to_speech ends; with the audio the turn
\* returns its result, with the error of the last voice it raises
V_Synthesis(outcome) ==
  /\ vturn.pc = "text_to_speech"
  /\ TTS_Attempt(outcome)
  /\ vturn' =
       CASE tts'.pc = "returned" ->
              [vturn EXCEPT
                 !.pc = "returned",
                 !.response_data =
                    response_data(vturn.transcript, vturn.response_data, tts'.audio,
                                  vturn.detected_language, vturn.emotion_analysis,
                                  vturn.voice_params)]
         [] tts'.pc = "raised" ->
              VoiceRaises(vturn, "Error processing voice message: Error generating speech")
         [] OTHER -> vturn
  /\ StoreUntouched
  /\ AnalyzerUntouched

\* the store and the cache a voice turn can find: those of a fresh service,
\* or a cache that holds the analysis of an earlier turn
VoiceInit ==
  /\ vturn = NoVoice
  /\ epc = [p \in Slots |-> "idle"]
  /\ ereq = [p \in Slots |-> NoEReq]
  /\ eout = NoEOut
  /\ elast = [t \in EmotionTexts \cup Messages |-> NoLast]
  /\ ecalls = 0
  /\ \/ emotion_cache = <<>>
     \/ \E d \in {e \in EmotionData : ValidEmotionAnalysis(e)} :
          emotion_cache = (<<"h","i">> :> d)

VoiceUnused == vturn = NoVoice

-----------------------------------------------------------------------------
(* SSMLBuilder *)

\* \w of a pattern: a letter, a digit or the underscore
IsWordChar(c) ==
  \/ \E i \in 1..Len(UpperChars) : UpperChars[i] = c
  \/ \E i \in 1..Len(LowerChars) : LowerChars[i] = c
  \/ \E i \in 1..Len(DigitChars) : DigitChars[i] = c
  \/ c = "_"

\* the least element of a non-empty set of positions
First(S) == CHOOSE j \in S : \A k \in S : j <= k

\* str.replace(old, new) for a single character old, from position i on
RECURSIVE ReplaceFrom(_, _, _, _)
ReplaceFrom(text, i, old, new) ==
  LET found == {j \in i..Len(text) : text[j] = old}
  IN  IF found = {} THEN SubSeq(text, i, Len(text))
      ELSE SubSeq(text, i, First(found) - 1) \o new
             \o ReplaceFrom(text, First(found) + 1, old, new)

Replace(text, old, new) == ReplaceFrom(text, 1, old, new)

\* variant: the ampersand is replaced last
escape_ssml_amp_last(text) ==
  LET t1 == Replace(text, "<", <<"&","l","t",";">>)
      t2 == Replace(t1, ">", <<"&","g","t",";">>)
      t3 == Replace(t2, "\"", <<"&","q","u","o","t",";">>)
      t4 == Replace(t3, "'", <<"&","a","p","o","s",";">>)
  IN  Replace(t4, "&", <<"&","a","m","p",";">>)

\* lines 235-240: five replacements, the ampersand first
escape_ssml(text) ==
  LET t1 == Replace(text, "&", <<"&","a","m","p",";">>)
      t2 == Replace(t1, "<", <<"&","l","t",";">>)
      t3 == Replace(t2, ">", <<"&","g","t",";">>)
      t4 == Replace(t3, "\"", <<"&","q","u","o","t",";">>)
  IN  Replace(t4, "'", <<"&","a","p","o","s",";">>)

\* line 18
PAUSE_AFTER ==
  << <<"h","o","w","e","v","e","r">>,
     <<"b","u","t">>,
     <<"a","n","d">>,
     <<"a","l","s","o">>,
     <<"a","d","d","i","t","i","o","n","a","l","l","y">>,
     <<"f","u","r","t","h","e","r","m","o","r","e">> >>

\* lines 10-15, in the order in which lines 165-167 collect them
EMPHASIS_KEYWORDS ==
  << <<"u","n","d","e","r","s","t","a","n","d">>,
     <<"h","e","r","e"," ","f","o","r"," ","y","o","u">>,
     <<"s","u","p","p","o","r","t">>,
     <<"h","e","l","p">>,
     <<"l","i","s","t","e","n">>,
     <<"c","a","r","e">>,
     <<"v","a","l","i","d">>,
     <<"n","o","r","m","a","l">>,
     <<"o","k","a","y">>,
     <<"n","a","t","u","r","a","l">>,
     <<"c","o","m","m","o","n">>,
     <<"u","n","d","e","r","s","t","a","n","d","a","b","l","e">>,
     <<"f","e","e","l">>,
     <<"d","i","f","f","i","c","u","l","t">>,
     <<"c","h","a","l","l","e","n","g","i","n","g">>,
     <<"h","a","r","d">>,
     <<"t","o","u","g","h">>,
     <<"s","t","r","u","g","g","l","e">>,
     <<"b","e","t","t","e","r">>,
     <<"i","m","p","r","o","v","e">>,
     <<"p","r","o","g","r","e","s","s">>,
     <<"h","o","p","e">>,
     <<"p","o","s","i","t","i","v","e">>,
     <<"f","o","r","w","a","r","d">> >>

\* <break time="{ms}ms"/>
break_tag(ms) ==
  <<"<","b","r","e","a","k"," ","t","i","m","e","=","\"">> \o Decimal(ms) \o <<"m","s","\"","/",">">>

\* the characters of an emphasis level
LevelChars(level) ==
  CASE level = "moderate" -> <<"m","o","d","e","r","a","t","e">>
    [] level = "strong" -> <<"s","t","r","o","n","g">>
    [] level = "reduced" -> <<"r","e","d","u","c","e","d">>

\* <emphasis level="{level}"> and </emphasis>
emphasis_open(level) ==
  <<"<","e","m","p","h","a","s","i","s"," ","l","e","v","e","l","=","\"">> \o LevelChars(level) \o <<"\"",">">>

emphasis_close == <<"<","/","e","m","p","h","a","s","i","s",">">>

\* the end of the whitespace that \s+ matches from position j on
RunEnd(text, j) ==
  CHOOSE k \in j..Len(text) :
    /\ \A m \in j..k : text[m] \in Whitespace
    /\ k = Len(text) \/ text[k + 1] \notin Whitespace

\* re.sub(r'<c>(\s+)', '<c><tag>\\1', text) from position i on: at the
\* leftmost match the tag goes between the character and the whitespace
\* that follows it, and the search goes on behind that whitespace
RECURSIVE sub_after_char(_, _, _, _)
sub_after_char(text, i, c, tag) ==
  LET found == {j \in i..(Len(text) - 1) : text[j] = c /\ text[j + 1] \in Whitespace}
  IN  IF found = {} THEN SubSeq(text, i, Len(text))
      ELSE LET j == First(found)
               k == RunEnd(text, j + 1)
           IN  SubSeq(text, i, j) \o tag \o SubSeq(text, j + 1, k)
                 \o sub_after_char(text, k + 1, c, tag)

\* the pattern \b<word>\b matches at position i, letter case ignored
whole_word_at(text, i, word) ==
  /\ i + Len(word) - 1 <= Len(text)
  /\ Lower(SubSeq(text, i, i + Len(word) - 1)) = word
  /\ i = 1 \/ ~IsWordChar(text[i - 1])
  /\ i + Len(word) - 1 = Len(text) \/ ~IsWordChar(text[i + Len(word)])

\* lines 144-146: re.sub(rf'\b{word}\b(\s+)', f'{word}<tag>\\1', text,
\* flags=re.IGNORECASE) from position i on; the word is written back as it is
\* spelled in PAUSE_AFTER
RECURSIVE sub_after_word(_, _, _, _)
sub_after_word(text, i, word, tag) ==
  LET found == {j \in i..(Len(text) - Len(word)) :
                  /\ whole_word_at(text, j, word)
                  /\ text[j + Len(word)] \in Whitespace}
  IN  IF found = {} THEN SubSeq(text, i, Len(text))
      ELSE LET j == First(found)
               k == RunEnd(text, j + Len(word))
           IN  SubSeq(text, i, j - 1) \o word \o tag \o SubSeq(text, j + Len(word), k)
                 \o sub_after_word(text, k + 1, word, tag)

\* lines 143-146: the loop over PAUSE_AFTER, from the k-th word on
RECURSIVE pause_after_words(_, _, _)
pause_after_words(text, k, tag) ==
  IF k > Len(PAUSE_AFTER) THEN text
  ELSE pause_after_words(sub_after_word(text, 1, PAUSE_AFTER[k], tag), k + 1, tag)

\* lines 134-148; int(base_pause_ms * 0.6) and int(base_pause_ms * 0.5) are
\* the truncated products
_add_natural_pauses(text, base_pause_ms) ==
  LET t1 == sub_after_char(text, 1, ".", break_tag(base_pause_ms))
      t2 == sub_after_char(t1, 1, "!", break_tag(base_pause_ms))
      t3 == sub_after_char(t2, 1, "?", break_tag(base_pause_ms))
      comma_pause == (base_pause_ms * 6) \div 10
      t4 == sub_after_char(t3, 1, ",", break_tag(comma_pause))
  IN  pause_after_words(t4, 1, break_tag((base_pause_ms * 5) \div 10))

\* lines 172-174: re.sub(rf'\b({keyword})\b', '<emphasis ...>\\1</emphasis>',
\* text, flags=re.IGNORECASE) from position i on; the match is kept as it
\* was spelled
RECURSIVE sub_emphasis(_, _, _, _)
sub_emphasis(text, i, keyword, level) ==
  LET found == {j \in i..(Len(text) - Len(keyword) + 1) : whole_word_at(text, j, keyword)}
  IN  IF found = {} THEN SubSeq(text, i, Len(text))
      ELSE LET j == First(found)
           IN  SubSeq(text, i, j - 1) \o emphasis_open(level)
                 \o SubSeq(text, j, j + Len(keyword) - 1) \o emphasis_close
                 \o sub_emphasis(text, j + Len(keyword), keyword, level)

\* lines 170-174: the loop over the keywords, from the k-th on
RECURSIVE emphasize_keywords(_, _, _)
emphasize_keywords(text, k, level) ==
  IF k > Len(EMPHASIS_KEYWORDS) THEN text
  ELSE emphasize_keywords(sub_emphasis(text, 1, EMPHASIS_KEYWORDS[k], level), k + 1, level)

\* lines 161-176
_add_emphasis(text, emphasis_level) ==
  IF emphasis_level = "reduced" THEN text
  ELSE emphasize_keywords(text, 1, emphasis_level)

\* lines 189-198
_voice_supports_styles(voice_name) ==
  voice_name \in {"en-US-AriaNeural", "en-US-JennyNeural", "en-US-GuyNeural",
                  "en-GB-SoniaNeural", "zh-CN-XiaoxiaoNeural", "zh-CN-YunxiNeural"}

\* lines 210-223
_get_xml_lang(language_code) ==
  CASE language_code = "en" -> "en-US"
    [] language_code = "hi" -> "hi-IN"
    [] language_code = "es" -> "es-ES"
    [] language_code = "fr" -> "fr-FR"
    [] language_code = "de" -> "de-DE"
    [] language_code = "pt" -> "pt-BR"
    [] language_code = "it" -> "it-IT"
    [] language_code = "ja" -> "ja-JP"
    [] language_code = "ko" -> "ko-KR"
    [] language_code = "zh" -> "zh-CN"
    [] OTHER -> "en-US"

\* lines 94-100 and 112-118: the document of either branch, as the values
\* that fill the one template both branches use: speak xml:lang, voice name,
\* the three prosody attributes and the text between the prosody tags
speak_document(text, voice_name, voice_params, language) ==
  [xml_lang |-> _get_xml_lang(language), voice |-> voice_name,
   rate |-> voice_params.rate, pitch |-> voice_params.pitch,
   volume |-> voice_params.volume, text |-> text]

\* variant: the text is escaped after the pauses and the emphasis are added
build_ssml_escape_last(text, voice_name, voice_params, language) ==
  LET paused == _add_natural_pauses(text, voice_params.pause_duration)
      processed_text == _add_emphasis(paused, voice_params.emphasis_level)
      escaped_text == escape_ssml(processed_text)
  IN  [escaped_text |-> escape_ssml(text), paused |-> paused,
       supports_styles |-> _voice_supports_styles(voice_name),
       ssml |-> speak_document(escaped_text, voice_name, voice_params, language)]

\* lines 43-70; the two intermediate texts are kept beside the document
build_ssml(text, voice_name, voice_params, language) ==
  LET escaped_text == escape_ssml(text)
      paused == _add_natural_pauses(escaped_text, voice_params.pause_duration)
      processed_text == _add_emphasis(paused, voice_params.emphasis_level)
  IN  [escaped_text |-> escaped_text, paused |-> paused,
       supports_styles |-> _voice_supports_styles(voice_name),
       ssml |-> speak_document(processed_text, voice_name, voice_params, language)]

-----------------------------------------------------------------------------
(* The crisis detector run on one text: the inputs *)

PadChars == {"x", " "}

RECURSIVE SeqsUpTo(_, _)
SeqsUpTo(S, n) ==
  IF n = 0 THEN {<<>>}
  ELSE LET shorter == SeqsUpTo(S, n - 1)
       IN  shorter \cup {Append(s, c) : s \in shorter, c \in S}

Pads == SeqsUpTo(PadChars, MaxPad)

CaseModes == {"listed", "upper", "lower", "mixed"}

Recase(k, mode) ==
  CASE mode = "listed" -> k
    [] mode = "upper"  -> Upper(k)
    [] mode = "lower"  -> Lower(k)
    [] mode = "mixed"  -> [i \in 1..Len(k) |-> IF i % 2 = 1 THEN UpperChar(k[i]) ELSE LowerChar(k[i])]

BenignTexts ==
  { <<"h","i">>, <<"I"," ","f","e","e","l"," ","s","a","d">>, <<"J","u","m">> }

DetectorTexts ==
  { pre \o Recase(crisis_keywords[k], m) \o suf :
      k \in 1..Len(crisis_keywords), m \in CaseModes, pre \in Pads, suf \in Pads }
    \cup { pre \o b : pre \in Pads, b \in BenignTexts }

NoOutcome == [kind |-> "pending", content |-> <<>>]

\* detect_crisis is entered with a text
CD_Init ==
  \E t \in DetectorTexts :
    cd = [text |-> t, stage |-> "called", model_invoked |-> FALSE,
          outcome |-> NoOutcome, result |-> FALSE]

\* lines 118-136: the keyword stage runs; without a match the model is called
CD_KeywordStage ==
  /\ cd.stage = "called"
  /\ IF detect_crisis_keyword(cd.text)
     THEN cd' = [cd EXCEPT !.stage = "returned", !.result = TRUE]
     ELSE cd' = [cd EXCEPT !.stage = "model", !.model_invoked = TRUE]

\* lines 136-155: the provider answers or fails
CD_ModelStage ==
  /\ cd.stage = "model"
  /\ \E o \in CrisisModelOutcomes :
       cd' = [cd EXCEPT !.stage = "returned", !.outcome = o,
                        !.result = detect_crisis_model(o)]

-----------------------------------------------------------------------------
(* Specifications *)

DetectorUnused ==
  cd = [text |-> <<>>, stage |-> "unused", model_invoked |-> FALSE,
        outcome |-> NoOutcome, result |-> FALSE]

\* the answers of the crisis model stage that the session runs draw from
SessionCrisisOutcomes ==
  { o \in CrisisModelOutcomes :
      o.kind = "error" \/ o.content \in { <<"n","o">>, <<"y","e","s">>, <<"Y","E","S">> } }

-----------------------------------------------------------------------------
(* SSMLBuilder called on one input *)

\* the characters the short texts to escape are made of: the five reserved
\* ones and those that spell the entity &lt;
EscapeChars == {"&", "<", ">", "\"", "'", "l", "t", ";", "a"}

\* the characters the short texts to build a document from are made of
PauseChars == {"b", "u", "t", ",", ".", " "}

EscapeTexts == SeqsUpTo(EscapeChars, MaxTextLen)

BuildTexts ==
  SeqsUpTo(PauseChars, MaxTextLen)
    \cup { <<"I","'","m"," ","h","a","r","d",","," ","b","u","t"," ","o","k","."," ">>,
         <<"A","n","d"," "," ","f","e","e","l","."," ","x">>,
         <<"a"," ","<","a","n","d",">"," ","\"","b","\"","?"," ","c">>,
         <<"A","l","s","o",","," ","h","o","p","e","!","\n","o","k">>,
         <<"h","e","r","e"," ","f","o","r"," ","y","o","u","."," ">>,
         <<"H","e","l","p"," ","a","n","d"," ","c","a","r","e"," ">>,
         <<"h","o","w","e","v","e","r",","," ","b","u","t","\t","I">>,
         <<"b","a","n","d"," ","a","n","d"," ","s","a","n","d"," ",",">>,
         <<"I","'","m"," ","o","k"," ","&"," ","w","e","l","l","."," ">> }

SSMLVoiceParameters ==
  { DefaultVoiceParameters,
    [emotion_map[<<"h","a","p","p","y">>] EXCEPT !.emphasis_level = "strong"],
    [emotion_map[<<"a","n","g","r","y">>] EXCEPT !.pause_duration = 360,
                                             !.emphasis_level = "reduced"] }

\* a voice and the language code it is asked for
SSMLVoices ==
  { [name |-> "en-US-AriaNeural", language |-> "en"],
    [name |-> "hi-IN-SwaraNeural", language |-> "xx"] }

NoDocument ==
  [escaped_text |-> <<>>, paused |-> <<>>, supports_styles |-> FALSE,
   ssml |-> speak_document(<<>>, "", DefaultVoiceParameters, "en")]

NoSSML ==
  [pc |-> "idle", op |-> "none", text |-> <<>>, voice_name |-> "",
   voice_params |-> DefaultVoiceParameters, language |-> "en",
   escaped |-> <<>>, built |-> NoDocument]

\* escape_ssml returns
SSML_Escape ==
  /\ ssml.pc = "called"
  /\ ssml.op = "escape_ssml"
  /\ ssml' = [ssml EXCEPT !.pc = "returned", !.escaped = escape_ssml(ssml.text)]

\* build_ssml returns
SSML_Build ==
  /\ ssml.pc = "called"
  /\ ssml.op = "build_ssml"
  /\ ssml' = [ssml EXCEPT !.pc = "returned",
                          !.built = build_ssml(ssml.text, ssml.voice_name,
                                               ssml.voice_params, ssml.language)]

\* a call of one of the two public methods on some input
SSMLInit ==
  \/ \E t \in EscapeTexts :
       ssml = [NoSSML EXCEPT !.pc = "called", !.op = "escape_ssml", !.text = t]
  \/ \E t \in BuildTexts, n \in SSMLVoices, v \in SSMLVoiceParameters :
       ssml = [NoSSML EXCEPT !.pc = "called", !.op = "build_ssml", !.text = t,
                             !.voice_name = n.name, !.voice_params = v,
                             !.language = n.language]

SSMLUnused == ssml = NoSSML

\* what the steps of one part of the program leave alone
OnlySessions == UNCHANGED <<cd, evars, mvars, tts, vturn, ssml>>

OnlyDetector == UNCHANGED <<svars, evars, mvars, tts, vturn, ssml>>

OnlyEmotion == UNCHANGED <<cd, svars, mvars, tts, vturn, ssml>>

OnlyMapper == UNCHANGED <<cd, svars, evars, tts, vturn, ssml>>

OnlyTTS == UNCHANGED <<cd, svars, evars, mvars, vturn, ssml>>

OnlyVoice == UNCHANGED <<cd, mvars, ssml>>

OnlySSML == UNCHANGED <<cd, svars, evars, mvars, tts, vturn>>

\* the session store under concurrent requests
Init == SessionsInit /\ DetectorUnused /\ EmotionInit /\ MapperInit /\ TTSInit /\ VoiceUnused /\ SSMLUnused

Next ==
  \/ \E p \in Slots, m \in Messages, sid \in SuppliedIds, l \in Languages :
       PM_Start(p, m, sid, l) /\ OnlySessions
  \/ \E p \in Slots, o \in SessionCrisisOutcomes : PM_CrisisModel(p, o) /\ OnlySessions
  \/ \E p \in Slots, o \in GenerateOutcomes : PM_Generate(p, o) /\ OnlySessions
  \/ \E id \in RouteIds : ClearSession(id) /\ OnlySessions
  \/ \E id \in RouteIds : GetHistory(id) /\ OnlySessions
  \/ Tick /\ OnlySessions

Spec == Init /\ [][Next]_vars

\* the crisis detector on one text
InitCrisis == CD_Init /\ SessionsUnused /\ EmotionInit /\ MapperInit /\ TTSInit /\ VoiceUnused /\ SSMLUnused

NextCrisis ==
  \/ CD_KeywordStage /\ OnlyDetector
  \/ CD_ModelStage /\ OnlyDetector

SpecCrisis == InitCrisis /\ [][NextCrisis]_vars

\* the emotion analyzer and its cache under concurrent requests
InitEmotion == EmotionInit /\ SessionsUnused /\ DetectorUnused /\ MapperInit /\ TTSInit /\ VoiceUnused /\ SSMLUnused

NextEmotion ==
  \/ \E p \in Slots, t \in EmotionTexts, u \in BOOLEAN :
       AE_Start(p, t, u) /\ OnlyEmotion
  \/ \E p \in Slots, o \in EmotionOutcomes : AE_Reply(p, o) /\ OnlyEmotion
  \/ AE_ClearCache /\ OnlyEmotion

SpecEmotion == InitEmotion /\ [][NextEmotion]_vars

\* the emotion-to-voice mapper called on one analysis after another
InitMapper == MapperInit /\ SessionsUnused /\ DetectorUnused /\ EmotionInit /\ TTSInit /\ VoiceUnused /\ SSMLUnused

NextMapper == \E e \in MapperProfiles : MapEmotion(e) /\ OnlyMapper

SpecMapper == InitMapper /\ [][NextMapper]_vars

\* text_to_speech, one call after another
InitTTS ==
  TTSInit /\ SessionsUnused /\ DetectorUnused /\ EmotionInit /\ MapperInit /\ VoiceUnused
    /\ SSMLUnused

NextTTS ==
  \/ \E t \in TTSTexts, l \in TTSLanguages, v \in TTSVoiceParameters, u \in BOOLEAN :
       TTS_Call(t, l, v, u) /\ OnlyTTS
  \/ \E o \in SynthesisOutcomes : TTS_Attempt(o) /\ OnlyTTS

SpecTTS == InitTTS /\ [][NextTTS]_vars

\* a voice turn, with sessions deleted and the clock moving meanwhile
InitVoice == VoiceInit /\ SessionsInit /\ DetectorUnused /\ MapperInit /\ TTSInit /\ SSMLUnused

NextVoice ==
  \/ \E l \in VoiceLanguages, sid \in SuppliedIds : V_Start(l, sid) /\ OnlyVoice
  \/ \E o \in TranscriptionOutcomes : V_Transcribed(o) /\ OnlyVoice
  \/ \E o \in EmotionOutcomes : V_EmotionReply(o) /\ OnlyVoice
  \/ \E o \in SessionCrisisOutcomes : V_CrisisModel(o) /\ OnlyVoice
  \/ \E o \in GenerateOutcomes : V_Generate(o) /\ OnlyVoice
  \/ \E o \in SynthesisOutcomes : V_Synthesis(o) /\ OnlyVoice
  \/ \E id \in RouteIds : ClearSession(id) /\ OnlySessions
  \/ Tick /\ OnlySessions

SpecVoice == InitVoice /\ [][NextVoice]_vars

\* the markup builder called on one input
InitSSML ==
  SSMLInit /\ SessionsUnused /\ DetectorUnused /\ EmotionInit /\ MapperInit /\ TTSInit
    /\ VoiceUnused

NextSSML ==
  \/ SSML_Escape /\ OnlySSML
  \/ SSML_Build /\ OnlySSML

SpecSSML == InitSSML /\ [][NextSSML]_vars

\* a provider call that was made ends
FairTTS == SpecTTS /\ WF_vars(\E o \in SynthesisOutcomes : TTS_Attempt(o) /\ OnlyTTS)

-----------------------------------------------------------------------------
(* Properties of the session store *)

History(id) == heap[sessions[id]].conversation_history

CrisisFlag(id) == heap[sessions[id]].crisis_detected

Min(a, b) == IF a <= b THEN a ELSE b

\* the newest n elements of s, in their order
Newest(s, n) == [i \in 1..n |-> s[Len(s) - n + i]]

IsPrefix(s, t) == Len(s) <= Len(t) /\ \A i \in 1..Len(s) : s[i] = t[i]

\* the last step completed a process_message call with a result
Returned == out.op = "process_message" /\ out.status = "ok"

\* C1: once a call on a session got a crisis verdict, the session's flag is
\* true for as long as the session is in the store; no step other than the
\* deletion of the session takes a set flag back to false.
C1_CrisisFlagSticky ==
  [][ /\ \A id \in DOMAIN sessions \cap DOMAIN sessions' :
           CrisisFlag(id) => heap'[sessions'[id]].crisis_detected
      /\ ( /\ out'.op = "process_message"
           /\ out'.status = "ok"
           /\ out'.result.is_crisis
           /\ out'.result.session_id \in DOMAIN sessions' )
         => heap'[sessions'[out'.result.session_id]].crisis_detected
    ]_vars

\* C2: a call given a session id works on the session of that id, whether
\* the store had it or not, and returns that id; only a call given no id
\* works under a generated one.
C2_SuppliedIdKept ==
  /\ \A p \in Slots :
       (pc[p] # "idle" /\ ~Falsy(req[p].supplied))
         => req[p].session_id = req[p].supplied
  /\ (Returned /\ ~Falsy(out.call.supplied))
       => out.result.session_id = out.call.supplied

\* C3: no stored history is longer than 20 turns, and a step that appends to
\* a session keeps exactly the newest turns, in order: the history after the
\* step is the newest part of the old history followed by the two appended
\* turns, the oldest turns being the ones discarded; no other step changes a
\* stored history.
C3_StepKeepsNewest ==
  \A id \in DOMAIN sessions \cap DOMAIN sessions' :
    sessions'[id] = sessions[id]
      => LET h  == History(id)
             h2 == heap'[sessions'[id]].conversation_history
             k  == Len(h2)
         IN  IF /\ out'.op = "process_message"
                /\ out'.status = "ok"
                /\ out'.result.session_id = id
             THEN /\ k = Min(Len(h) + 2, MaxHistory)
                  /\ SubSeq(h2, 1, k - 2) = Newest(h, k - 2)
                  /\ h2[k - 1].by = out'.call.slot
                  /\ h2[k].by = out'.call.slot
             ELSE h2 = h

C3_HistoryCapped ==
  /\ [](\A id \in DOMAIN sessions : Len(History(id)) <= MaxHistory)
  /\ [][C3_StepKeepsNewest]_vars

\* a 20-turn history whose four newest turns come from two calls of this run:
\* the second call appended to a full history
C3_Witness ==
  \E id \in DOMAIN sessions :
    /\ Len(History(id)) = MaxHistory
    /\ History(id)[MaxHistory - 3].by # 0
    /\ History(id)[MaxHistory - 4].by = 0

\* the history a completing call appends to: the stored one, or the empty one
\* of a session the completing step itself created
AppendedTo(id) ==
  IF id \in DOMAIN sessions /\ sessions'[id] = sessions[id] THEN History(id) ELSE <<>>

\* the history that results from appending the call's user message and reply
WithTurn(h, call, response) ==
  LET grown == h \o << Turn("user", call.message, call.slot),
                       Turn("assistant", response, call.slot) >>
  IN  Newest(grown, Min(MaxHistory, Len(grown)))

ScriptFor(language) ==
  CASE language = "hi" -> crisis_responses["hi"]
    [] language = "es" -> crisis_responses["es"]
    [] OTHER -> crisis_responses["en"]

\* C5: a call whose crisis verdict is true never calls the Dialogue
\* Generator, returns is_crisis = true and replies with the crisis script of
\* the request language, the English one where the language has none.
C5_CrisisSkipsGenerator ==
  /\ \A p \in Slots : pc[p] = "generate_response" => ~req[p].is_crisis
  /\ (out.op = "process_message" /\ out.call.is_crisis)
       => /\ out.status = "ok"
          /\ ~out.call.gen_invoked
          /\ out.result.is_crisis
          /\ out.result.response = ScriptFor(out.call.language)

\* a crisis verdict of the model stage in a language that has no script
C5_Witness ==
  /\ Returned
  /\ out.call.is_crisis
  /\ out.call.model_invoked
  /\ out.call.language = "xx"

\* C6: clear_session(id) leaves the id out of the store and its history
\* empty to get_conversation_history, and changes no other session;
\* clear_session on an id the store does not hold and
\* get_conversation_history on any id change nothing in the store.
C6_ClearRemovesOnlyThat ==
  [][ /\ out'.op = "clear_session" =>
           LET id == out'.session_id
           IN  /\ id \notin DOMAIN sessions'
               /\ get_conversation_history(sessions', heap', id) = <<>>
               /\ DOMAIN sessions' = DOMAIN sessions \ {id}
               /\ \A other \in DOMAIN sessions \ {id} :
                    heap'[sessions'[other]] = heap[sessions[other]]
               /\ id \notin DOMAIN sessions => (sessions' = sessions /\ heap' = heap)
      /\ out'.op = "get_conversation_history" =>
           /\ sessions' = sessions
           /\ heap' = heap
           /\ out'.session_id \notin DOMAIN sessions => out'.history = <<>>
    ]_vars

\* a session was deleted while another one stays in the store
C6_Witness ==
  /\ out.op = "clear_session"
  /\ out.status = "deleted"
  /\ \E other \in DOMAIN sessions : Len(History(other)) > 0

\* C7: the turns of every stored history come in pairs, a user turn directly
\* followed by the reply of the same request, also when two requests on one
\* session overlap; and below the cap a step drops no turn of a session: a
\* completing call adds its two turns behind all the turns already stored.
C7_PairsKept ==
  \A id \in DOMAIN sessions :
    LET h == History(id)
    IN  /\ Len(h) % 2 = 0
        /\ \A i \in 1..Len(h) :
             i % 2 = 1 => /\ h[i].role = "user"
                          /\ h[i + 1].role = "assistant"
                          /\ h[i + 1].by = h[i].by

C7_NoTurnDropped ==
  \A id \in DOMAIN sessions \cap DOMAIN sessions' :
    (sessions'[id] = sessions[id] /\ Len(History(id)) + 2 <= MaxHistory)
      => LET h  == History(id)
             h2 == heap'[sessions'[id]].conversation_history
         IN  /\ IsPrefix(h, h2)
             /\ ( /\ out'.op = "process_message"
                  /\ out'.status = "ok"
                  /\ out'.result.session_id = id )
                  => h2 = h \o << Turn("user", out'.call.message, out'.call.slot),
                                  Turn("assistant", out'.result.response, out'.call.slot) >>

C7_ConcurrentAppendsWhole ==
  /\ []C7_PairsKept
  /\ [][C7_NoTurnDropped]_vars

\* two requests that overlapped on a session that existed before both have
\* completed: the session holds the earlier pair and the pair of each request
C7_Witness ==
  /\ \A p \in Slots : pc[p] = "idle"
  /\ \E id \in DOMAIN sessions :
       LET h == History(id)
       IN  /\ Len(h) = 6
           /\ h[1].by = 0
           /\ {h[3].by, h[5].by} = {1, 2}

-----------------------------------------------------------------------------
(* Properties of the crisis detector *)

\* s and t are the same text up to letter case
SameLetters(s, t) ==
  Len(s) = Len(t) /\ \A i \in 1..Len(s) : LowerChar(s[i]) = LowerChar(t[i])

\* text holds keyword k of the list at some position, in some letter case
HoldsKeyword(text, k) ==
  \E i \in 0..(Len(text) - Len(crisis_keywords[k])) :
    SameLetters(SubSeq(text, i + 1, i + Len(crisis_keywords[k])), crisis_keywords[k])

\* C8: for a text that holds a listed keyword, in any letter case and at any
\* position, the detector returns true and the model stage is not called.
C8_KeywordAlwaysDetected ==
  (cd.stage # "called" /\ \E k \in 1..Len(crisis_keywords) : HoldsKeyword(cd.text, k))
    => /\ ~cd.model_invoked
       /\ cd.stage = "returned"
       /\ cd.result = TRUE

\* s holds the letters of t somewhere, in any letter case
HoldsIgnoringCase(s, t) ==
  \E i \in 0..(Len(s) - Len(t)) : SameLetters(SubSeq(s, i + 1, i + Len(t)), t)

\* C9 as stated: without a keyword match the verdict is true exactly when
\* the model stage completes with a response that contains "YES".
C9_TrueIffContainsYES ==
  (cd.stage = "returned" /\ cd.model_invoked)
    => (cd.result = TRUE <=> (cd.outcome.kind = "ok" /\ Contains(cd.outcome.content, YES)))

\* C9, amended: without a keyword match the verdict is true exactly when the
\* model stage completes with a response that contains "yes" in any letter
\* case; a failed model stage gives the verdict false.
C9_TrueIffSaysYes ==
  (cd.stage = "returned" /\ cd.model_invoked)
    => /\ cd.result = TRUE
            <=> (cd.outcome.kind = "ok" /\ HoldsIgnoringCase(cd.outcome.content, YES))
       /\ cd.outcome.kind # "ok" => cd.result = FALSE

\* the provider failed in the model stage and the detector returned
C9_Witness ==
  /\ cd.stage = "returned"
  /\ cd.model_invoked
  /\ cd.outcome.kind = "error"
  /\ cd.result = FALSE

-----------------------------------------------------------------------------
(* Properties of the emotion analyzer *)

\* the step starts an analyze_emotion call on text t with use_cache = u
StartsAnalysis(t, u) ==
  /\ ecalls' = ecalls + 1
  /\ \/ /\ epc' = epc
        /\ eout'.op = "analyze_emotion"
        /\ eout'.text = t
        /\ eout'.use_cache = u
     \/ \E p \in Slots :
          /\ epc[p] = "idle"
          /\ epc'[p] = "model"
          /\ ereq'[p] = [text |-> t, use_cache |-> u]

\* the step answers the call it starts from the cache, with the analysis the
\* last call on the text returned and without a model call
AnsweredFromCache(t) ==
  /\ eout'.op = "analyze_emotion"
  /\ eout'.from_cache
  /\ ~eout'.model_invoked
  /\ eout'.analysis = elast[t].analysis

\* C10 as stated: a call whose text a completed call had before returns that
\* call's analysis from the cache without a model call, whatever the outcome
\* of the first call was.
C10_SecondCallAlwaysCached ==
  [][ \A t \in EmotionTexts :
        (StartsAnalysis(t, TRUE) /\ elast[t].done /\ elast[t].use_cache)
          => AnsweredFromCache(t) ]_vars

\* C10, amended: a call whose text a completed call had before, both with the
\* cache in use and with no clear_cache between them, returns that call's
\* analysis from the cache without a model call when the first call returned
\* an analysis parsed from a model response; after a first call that fell
\* back to the neutral analysis the second call calls the model again.
C10_SecondCallCached ==
  [][ \A t \in EmotionTexts :
        (StartsAnalysis(t, TRUE) /\ elast[t].done /\ elast[t].use_cache)
          => /\ ~elast[t].fallback => AnsweredFromCache(t)
             /\ (elast[t].fallback /\ t \notin DOMAIN emotion_cache)
                  => \E p \in Slots : epc[p] = "idle" /\ epc'[p] = "model" ]_vars

\* a second call on a text was answered from the cache
C10_Witness ==
  /\ eout.op = "analyze_emotion"
  /\ eout.from_cache
  /\ eout.analysis # _get_neutral_emotion
  /\ ecalls = 2

\* the neutral analysis, field by field
NeutralProfile(a) ==
  /\ a.primary_emotion = <<"n","e","u","t","r","a","l">>
  /\ a.intensity * 2 = Tenth
  /\ a.confidence * 2 = Tenth
  /\ a.recommended_style = "friendly"
  /\ a.recommended_pace = "normal"
  /\ a.key_concerns = <<>>
  /\ a.crisis_level = 0

\* the answer of the model is unusable: the call raised, the text is no JSON,
\* or the object lacks a required field or has a number outside 0.0 .. 1.0
UnusableAnswer(o) ==
  \/ o.kind \in {"error", "not_json"}
  \/ /\ o.kind = "json"
     /\ \/ \E f \in {"primary_emotion", "intensity", "confidence",
                     "recommended_style", "recommended_pace"} : f \notin DOMAIN o.data
        \/ \E f \in {"intensity", "confidence", "crisis_level"} \cap DOMAIN o.data :
             o.data[f] < 0 \/ o.data[f] > Tenth

\* C11: every analyze_emotion call returns an analysis (no call ends with an
\* error), and a call whose model call failed, answered with text that is no
\* JSON or answered with an object that violates the schema returns the
\* neutral analysis: neutral, 0.5, 0.5, friendly, normal, no concerns, 0.0.
C11_FailureGivesNeutral ==
  /\ \A p \in Slots : epc[p] \in {"idle", "model"}
  /\ eout.op \in {"none", "analyze_emotion"}
  /\ (eout.op = "analyze_emotion" /\ UnusableAnswer(eout.outcome))
       => NeutralProfile(eout.analysis)
  /\ (eout.op = "analyze_emotion" /\ eout.fallback) => UnusableAnswer(eout.outcome)

\* a call whose answer violated the schema has returned
C11_Witness ==
  /\ eout.op = "analyze_emotion"
  /\ eout.outcome.kind = "json"
  /\ UnusableAnswer(eout.outcome)
  /\ NeutralProfile(eout.analysis)

-----------------------------------------------------------------------------
(* Properties of the emotion-to-voice mapper *)

\* the last step mapped an analysis
Mapped == mout.op = "emotion_to_voice_parameters"

\* the table entry an analysis is mapped from
BaseOf(emotion) ==
  LET name == Lower(emotion.primary_emotion)
  IN  IF name \in DOMAIN emotion_map
      THEN emotion_map[name]
      ELSE emotion_map[<<"n","e","u","t","r","a","l">>]

\* C19: with r the base rate and i the intensity: for i > 0.7 the rate is
\* max(0.75, r - 0.05) when r < 1.0 and r otherwise, and the pause is 1.2
\* times the base pause; for i < 0.3 the rate is min(1.0, r + 0.05) and the
\* pause 0.8 times the base pause; for 0.3 <= i <= 0.7 rate and pause are the
\* base values; style, pitch, volume and emphasis are the base values always.
C19_IntensityModulation ==
  Mapped =>
    LET b == BaseOf(mout.emotion)
        i == mout.emotion.intensity
        v == mout.params
    IN  /\ (i > 7 /\ Nominal(b.rate) < 100)
             => Nominal(v.rate) = Max(75, Nominal(b.rate) - 5)
        /\ (i > 7 /\ Nominal(b.rate) >= 100) => v.rate = b.rate
        /\ i > 7 => v.pause_duration * 10 = b.pause_duration * 12
        /\ i < 3 => Nominal(v.rate) = Min(100, Nominal(b.rate) + 5)
        /\ i < 3 => v.pause_duration * 10 = b.pause_duration * 8
        /\ (3 <= i /\ i <= 7) => (v.rate = b.rate /\ v.pause_duration = b.pause_duration)
        /\ v.style = b.style
        /\ v.pitch = b.pitch
        /\ v.volume = b.volume
        /\ v.emphasis_level = b.emphasis_level

\* an analysis of intensity 0.7 with a base rate below 1.0 was mapped, and
\* before it one of an intensity above 0.7
C19_Witness ==
  /\ Mapped
  /\ mout.emotion.intensity = 7
  /\ Nominal(BaseOf(mout.emotion).rate) < 100
  /\ \E e \in DOMAIN mseen : e.intensity > 7 /\ mseen[e].rate < BaseOf(e).rate

\* C20: the result depends on the analysis only: the emotion is looked up
\* lower-cased in the table, an emotion the table does not list gets the
\* neutral entry (friendly, 1.0, 0%, medium, 300, moderate), and a call
\* returns what any earlier call on an equal analysis, or on one that differs
\* in the letter case of the emotion only, returned.
C20_MapperIsPure ==
  Mapped =>
    LET name == Lower(mout.emotion.primary_emotion)
        i == mout.emotion.intensity
        v == mout.params
    IN  /\ name \in DOMAIN emotion_map
             => /\ v.style = emotion_map[name].style
                /\ v.pitch = emotion_map[name].pitch
                /\ (3 <= i /\ i <= 7) => v = emotion_map[name]
        /\ name \notin DOMAIN emotion_map
             => /\ v.style = "friendly"
                /\ v.pitch = <<"0","%">>
                /\ v.volume = "medium"
                /\ v.emphasis_level = "moderate"
                /\ (3 <= i /\ i <= 7) => (v.rate = Exact(100) /\ v.pause_duration = 300)
        /\ \A e \in DOMAIN mseen :
             (Lower(e.primary_emotion) = name /\ e.intensity = i) => v = mseen[e]

\* an emotion spelled in capitals was mapped after its lower-case spelling,
\* and the result is not the neutral entry
C20_Witness ==
  /\ Mapped
  /\ mout.emotion.primary_emotion = <<"H","A","P","P","Y">>
  /\ mout.params.style = "cheerful"
  /\ \E e \in DOMAIN mseen :
       /\ e.primary_emotion = <<"h","a","p","p","y">>
       /\ e.intensity = mout.emotion.intensity

-----------------------------------------------------------------------------
(* Properties of text_to_speech *)

\* the candidate voices of a language, as the claim counts them
Candidates(language) ==
  IF language \in DOMAIN voice_options THEN voice_options[language]
  ELSE <<"en-US-AriaNeural">>

\* a provider call that raised or wrote no byte
FailedAttempt(o) == o.kind = "raise" \/ Len(o.audio) = 0

\* C13: the candidate voices are attempted in list order, one after the
\* other; the first attempt that yields audio of some bytes ends the call
\* with that audio and no later candidate is attempted; an attempt that
\* raises or yields no byte is recorded as a failure and the next candidate
\* is tried, so the recorded failures are the candidates before the
\* successful one.
C13_VoicesInOrder ==
  tts.pc # "idle" =>
    LET voices == Candidates(tts.language)
        n == Len(tts.got)
    IN  /\ Len(tts.sent) <= Len(voices)
        /\ \A k \in 1..Len(tts.sent) : tts.sent[k].voice = voices[k]
        /\ \A k \in 1..(n - 1) : FailedAttempt(tts.got[k])
        /\ Len(tts.failed) = Cardinality({k \in 1..n : FailedAttempt(tts.got[k])})
        /\ \A k \in 1..Len(tts.failed) : tts.failed[k].voice = voices[k]
        /\ (n > 0 /\ ~FailedAttempt(tts.got[n]))
             => /\ tts.pc = "returned"
                /\ tts.audio = b64encode(tts.got[n].audio)
                /\ Len(tts.sent) = n
                /\ Len(tts.failed) = n - 1
        /\ tts.pc = "returned" => (n > 0 /\ ~FailedAttempt(tts.got[n]))
        /\ ((n = 0 \/ FailedAttempt(tts.got[n])) /\ n < Len(voices))
             => (tts.pc = "attempt" /\ Len(tts.sent) = n + 1)

\* the first voice failed and the second gave the audio: one recorded failure
C13_Witness ==
  /\ tts.pc = "returned"
  /\ Len(tts.sent) = 2
  /\ Len(tts.failed) = 1
  /\ tts.got[1].kind = "raise"
  /\ tts.audio = b64encode(tts.got[2].audio)

\* every candidate voice was attempted once, in order, and failed
AllCandidatesFailed ==
  LET voices == Candidates(tts.language)
  IN  /\ Len(tts.sent) = Len(voices)
      /\ Len(tts.got) = Len(voices)
      /\ \A k \in 1..Len(voices) :
           tts.sent[k].voice = voices[k] /\ FailedAttempt(tts.got[k])

\* the error of the last attempt
LastError ==
  LET o == tts.got[Len(tts.got)]
  IN  IF o.kind = "raise" THEN o.error ELSE "No audio data generated"

\* C14: text_to_speech raises only when every candidate voice was attempted
\* once and failed, and then raises one error that carries the error of the
\* last candidate; it never makes more attempts than there are candidates,
\* and every call ends, with audio or with that error.
C14_FailsOnlyWhenExhausted ==
  /\ [](tts.pc = "raised"
          => /\ AllCandidatesFailed
             /\ tts.raised.cause = LastError
             /\ tts.raised.message = "Error generating speech after trying all voices: ")
  /\ [](Len(tts.got) <= Len(tts.sent) /\ Len(tts.sent) <= Len(Candidates(tts.language)))
  /\ [](tts.pc = "attempt" => Len(tts.got) < Len(Candidates(tts.language)))
  /\ (tts.pc = "attempt") ~> (tts.pc \in {"returned", "raised"})

\* two voices failed with different errors and the call raised
C14_Witness ==
  /\ tts.pc = "raised"
  /\ Len(tts.got) = 2
  /\ tts.got[1].kind = "raise"
  /\ tts.got[2].kind = "audio"

-----------------------------------------------------------------------------
(* Properties of the voice turn *)

\* C12: a voice turn whose emotion analysis failed returns a result without
\* an emotion entry, and its text_to_speech call is given no voice
\* parameters.
C12_FailedEmotionOmitted ==
  UnusableAnswer(vturn.emotion_outcome)
    => /\ vturn.pc = "returned" => "emotion" \notin DOMAIN vturn.response_data
       /\ vturn.pc \in {"text_to_speech", "returned"} => ~tts.given

\* where a stage stands in an order of stages, 0 when it is not in it
StageIndex(stage, order) ==
  IF \E k \in 1..Len(order) : order[k] = stage
  THEN CHOOSE k \in 1..Len(order) : order[k] = stage
  ELSE 0

\* the stages ran in the given order, each at most once
RanInOrder(stages, order) ==
  /\ \A k \in 1..Len(stages) : StageIndex(stages[k], order) > 0
  /\ \A j, k \in 1..Len(stages) :
       j < k => StageIndex(stages[j], order) < StageIndex(stages[k], order)

\* at most one stage of the turn is running, the one the turn waits for
OneStageAtATime ==
  /\ \A p \in Slots : pc[p] # "idle" => (p = 1 /\ vturn.pc = "process_message")
  /\ \A p \in Slots : epc[p] # "idle" => (p = 1 /\ vturn.pc = "analyze_emotion")
  /\ tts.pc = "attempt" => vturn.pc = "text_to_speech"

IsMarkup(content) ==
  /\ Len(content) >= 6
  /\ SubSeq(content, 1, 6) = <<"<","s","p","e","a","k">>

\* C16: what the provider is given for a candidate voice in a voice turn is
\* the markup document built from the reply, not the plain reply text.
C16_ProviderGetsMarkup ==
  vturn.pc \in {"text_to_speech", "returned"}
    => \A k \in 1..Len(tts.sent) :
         /\ IsMarkup(tts.sent[k].tts_text)
         /\ tts.sent[k].tts_text # vturn.response_data.response

\* the language a voice turn works in, from its explicit language and the
\* language the transcription reported
Effective(explicit, reported) ==
  IF explicit \in {"en", "hi", "es", "fr", "de", "pt", "it", "ja", "ko", "zh"}
  THEN explicit
  ELSE reported

\* C17: the language of the text turn, the language stored in the session,
\* the language of the synthesis and the returned language are the explicit
\* language when one was given and is one of the ten supported codes, and
\* the language the transcription reported otherwise.
C17_EffectiveLanguage ==
  /\ [](\A p \in Slots :
          pc[p] # "idle" => req[p].language = Effective(vturn.language, vturn.reported))
  /\ [](vturn.pc \in {"text_to_speech", "returned"}
          => /\ tts.language = Effective(vturn.language, vturn.reported)
             /\ vturn.response_data.language \in
                  {"", Effective(vturn.language, vturn.reported)})
  /\ [](vturn.pc = "returned"
          => vturn.response_data.language = Effective(vturn.language, vturn.reported))
  /\ [][ ncalls' = ncalls + 1
           => LET id == IF out'.op = "process_message"
                        THEN out'.call.session_id
                        ELSE req'[1].session_id
              IN  /\ id \in DOMAIN sessions'
                  /\ heap'[sessions'[id]].language
                       = Effective(vturn'.language, vturn'.reported) ]_vars

\* a turn with an explicit language outside the ten codes has returned in
\* the language the transcription reported
C17_Witness ==
  /\ vturn.pc = "returned"
  /\ vturn.language = "xx"
  /\ vturn.reported = "hindi"
  /\ vturn.response_data.language = "hindi"
  /\ tts.language = "hindi"

\* C18: a request whose language is none of the supported codes is rejected
\* before any provider call and changes no session: no call with such a
\* language waits for a provider or returns a result, and no session stores
\* such a language.
C18_UnsupportedLanguageRejected ==
  LET supported == {"en", "hi", "es", "fr", "de", "pt", "it", "ja", "ko", "zh"}
  IN  /\ \A p \in Slots : pc[p] # "idle" => req[p].language \in supported
      /\ out.op = "process_message" => out.call.language \in supported
      /\ \A id \in DOMAIN sessions : heap[sessions[id]].language \in supported

-----------------------------------------------------------------------------
(* Properties of the context given to the Dialogue Generator *)

\* the history of the session dict that the call of slot p holds after a
\* step, as it was before the step
HistoryBefore(p) ==
  IF req'[p].session \in DOMAIN heap
  THEN heap[req'[p].session].conversation_history
  ELSE <<>>

\* C21: on a non-crisis turn the Dialogue Generator receives the last 10
\* turns of the session's history as it was before the user message is
\* appended (all of them when there are fewer than 10), in stored order,
\* followed by the current user message; only the language instruction of a
\* non-English request comes after it.
C21_ContextIsLastTen ==
  [][ \A p \in Slots :
        (pc[p] # "generate_response" /\ pc'[p] = "generate_response")
          => LET h    == HistoryBefore(p)
                 k    == Min(Len(h), ContextTurns)
                 sent == req'[p].sent
             IN  /\ ~req'[p].is_crisis
                 /\ Len(sent) \in {k + 1, k + 2}
                 /\ \A i \in 1..k : sent[i] = h[Len(h) - k + i]
                 /\ sent[k + 1] = [role |-> "user", content |-> req'[p].message]
                 /\ Len(sent) = k + 2
                      <=> /\ req'[p].language # "en"
                          /\ sent[k + 2].role = "system"
    ]_vars

\* a call waits for the Dialogue Generator with a context of ten stored
\* turns, the newest of them appended by an earlier call of this run, out of
\* a history of twenty
C21_Witness ==
  \E p \in Slots :
    /\ pc[p] = "generate_response"
    /\ Len(req[p].sent) >= ContextTurns + 1
    /\ req[p].sent[ContextTurns].by # 0
    /\ req[p].sent[1].by = 0
    /\ Len(heap[req[p].session].conversation_history) = MaxHistory

-----------------------------------------------------------------------------
(* Properties of the conversion to the provider's format *)

\* the percentage string of a rate of h hundredths
ClaimedRate(h) == SignedDecimal(h - 100) \o <<"%">>

\* the Hz string of the pitches that are given
ClaimedPitch(pitch) ==
  CASE pitch = <<"-","3","%">> -> <<"-","1","5","H","z">>
    [] pitch = <<"-","1","%">> -> <<"-","5","H","z">>
    [] pitch = <<"+","1","%">> -> <<"+","5","H","z">>
    [] pitch = <<"+","2","%">> -> <<"+","1","0","H","z">>
    [] OTHER -> <<"+","0","H","z">>

ClaimedVolume(volume) ==
  CASE volume = "soft" -> <<"-","2","0","%">>
    [] volume = "loud" -> <<"+","2","0","%">>
    [] OTHER -> <<"+","0","%">>

\* C22: the provider is given the rate m as the signed integer percentage
\* of (m - 1) * 100 (1.1 as "+10%", 1.0 as "+0%", 1.2 as "+20%", 0.9 as
\* "-10%"), the pitch p% as the signed 5 * p in Hz and "+0Hz" when it cannot
\* be parsed, the volume as "-20%", "+0%" or "+20%", and every candidate
\* voice of a call is given the same three values.
C22_WireFormat ==
  \A k \in 1..Len(tts.sent) :
    /\ tts.sent[k].rate = ClaimedRate(Nominal(tts.voice_params.rate))
    /\ tts.sent[k].pitch = ClaimedPitch(tts.voice_params.pitch)
    /\ tts.sent[k].volume = ClaimedVolume(tts.voice_params.volume)
    /\ tts.sent[k].rate = tts.sent[1].rate
    /\ tts.sent[k].pitch = tts.sent[1].pitch
    /\ tts.sent[k].volume = tts.sent[1].volume

-----------------------------------------------------------------------------
(* Properties of the markup builder *)

\* the five entities and the characters they stand for
Entities ==
  { [name |-> <<"&","a","m","p",";">>, char |-> "&"], [name |-> <<"&","l","t",";">>, char |-> "<"],
    [name |-> <<"&","g","t",";">>, char |-> ">"], [name |-> <<"&","q","u","o","t",";">>, char |-> "\""],
    [name |-> <<"&","a","p","o","s",";">>, char |-> "'"] }

StartsWith(text, prefix) ==
  Len(prefix) <= Len(text) /\ SubSeq(text, 1, Len(prefix)) = prefix

\* the inverse of escaping: every entity is replaced by its character,
\* from position i on
RECURSIVE UnescapeFrom(_, _)
UnescapeFrom(text, i) ==
  LET rest(j) == SubSeq(text, j, Len(text))
      found == {j \in i..Len(text) : \E e \in Entities : StartsWith(rest(j), e.name)}
  IN  IF found = {} THEN rest(i)
      ELSE LET j == First(found)
               e == CHOOSE x \in Entities : StartsWith(rest(j), x.name)
           IN  SubSeq(text, i, j - 1) \o <<e.char>> \o UnescapeFrom(text, j + Len(e.name))

Unescape(text) == UnescapeFrom(text, 1)

Occurrences(text, chars) == Cardinality({i \in 1..Len(text) : text[i] \in chars})

\* C24: unescaping the escaped text gives the original text; the escaped
\* text holds no raw <, >, " or '; every & in it starts one of the five
\* entities, and there are as many & as the input has reserved characters,
\* so that none is escaped twice.
C24_EscapeRoundTrip ==
  (ssml.pc = "returned" /\ ssml.op = "escape_ssml")
    => /\ Unescape(ssml.escaped) = ssml.text
       /\ Occurrences(ssml.escaped, {"<", ">", "\"", "'"}) = 0
       /\ \A i \in 1..Len(ssml.escaped) :
            ssml.escaped[i] = "&"
              => \E e \in Entities :
                   StartsWith(SubSeq(ssml.escaped, i, Len(ssml.escaped)), e.name)
       /\ Occurrences(ssml.escaped, {"&"})
            = Occurrences(ssml.text, {"&", "<", ">", "\"", "'"})

\* a text that spells an entity was escaped: its & is escaped, once
C24_Witness ==
  /\ ssml.pc = "returned"
  /\ ssml.op = "escape_ssml"
  /\ ssml.text = <<"&","l","t",";">>
  /\ ssml.escaped = <<"&","a","m","p",";","l","t",";">>

\* The escaped text holds no raw < or >, so in the processed text every <
\* opens a marker and the next > closes it.
TagEnd(doc, i) == First({e \in i..Len(doc) : doc[e] = ">"})

InTag(doc, j) ==
  \E i \in 1..j : doc[i] = "<" /\ \A m \in i..(j - 1) : doc[m] # ">"

\* the characters outside the markers that stand before position i
KeptBefore(doc, i) == {j \in 1..(i - 1) : ~InTag(doc, j)}

\* the processed text without its markers
Stripped(doc) ==
  LET keep == KeptBefore(doc, Len(doc) + 1)
  IN  [n \in 1..Cardinality(keep) |->
         doc[CHOOSE j \in keep : Cardinality(KeptBefore(doc, j)) = n - 1]]

\* a whole transition word ends just before position i
TransitionWordBefore(doc, i) ==
  \E k \in 1..Len(PAUSE_AFTER) :
    LET from == i - Len(PAUSE_AFTER[k])
    IN  from >= 1 /\ whole_word_at(doc, from, PAUSE_AFTER[k])

\* position n of the escaped text and its successor belong to one entity
InsideEntity(escaped, n) ==
  \E a \in 1..n : \E e \in Entities :
    /\ StartsWith(SubSeq(escaped, a, Len(escaped)), e.name)
    /\ n < a + Len(e.name) - 1

\* the text between the prosody tags of the document that was built
Processed == ssml.built.ssml.text

BuildReturned == ssml.pc = "returned" /\ ssml.op = "build_ssml"

\* C23: the text is escaped first, the pauses are inserted next and the
\* emphasis last, and no step touches what an earlier one inserted: without
\* its markers the processed text is the escaped input (a transition word
\* apart, which is written in lower case); every marker is a whole pause
\* marker or emphasis marker; a pause marker stands after '.', '!' or '?'
\* with the full pause_duration, after a comma with 60% of it, or after a
\* whole transition word with 50% of it, and before the whitespace that
\* followed in the input; no marker stands inside an entity or inside
\* another marker.
C23_PausesWellPlaced ==
  BuildReturned =>
    LET doc     == Processed
        escaped == escape_ssml(ssml.text)
        ms      == ssml.voice_params.pause_duration
        level   == ssml.voice_params.emphasis_level
    IN  /\ Lower(Stripped(doc)) = Lower(escaped)
        /\ \A i \in 1..Len(doc) :
             doc[i] = "<" =>
               /\ \E e \in i..Len(doc) : doc[e] = ">"
               /\ LET e   == TagEnd(doc, i)
                      tag == SubSeq(doc, i, e)
                  IN  /\ \A m \in (i + 1)..e : doc[m] # "<"
                      /\ tag \in { break_tag(ms), break_tag((ms * 6) \div 10),
                                   break_tag((ms * 5) \div 10),
                                   emphasis_open(level), emphasis_close }
                      /\ level = "reduced" => tag # emphasis_open(level)
                      /\ (tag[2] = "b")
                           => /\ i > 1
                              /\ e < Len(doc)
                              /\ doc[e + 1] \in Whitespace
                              /\ \/ doc[i - 1] \in {".", "!", "?"} /\ tag = break_tag(ms)
                                 \/ doc[i - 1] = "," /\ tag = break_tag((ms * 6) \div 10)
                                 \/ /\ TransitionWordBefore(doc, i)
                                    /\ tag = break_tag((ms * 5) \div 10)
                      /\ ~InsideEntity(escaped, Cardinality(KeptBefore(doc, i)))

\* a document was built from a text with an entity, a sentence end, a comma
\* and a transition word, each followed by a pause marker of its length, and
\* with an emphasized keyword
C23_Witness ==
  /\ BuildReturned
  /\ ssml.voice_params.pause_duration = 300
  /\ \E i \in 1..Len(ssml.text) : ssml.text[i] = "'"
  /\ \E i \in 2..Len(Processed) :
       /\ Processed[i - 1] = "."
       /\ SubSeq(Processed, i, i + Len(break_tag(300)) - 1) = break_tag(300)
  /\ \E i \in 2..Len(Processed) :
       /\ Processed[i - 1] = ","
       /\ SubSeq(Processed, i, i + Len(break_tag(180)) - 1) = break_tag(180)
  /\ \E i \in 2..Len(Processed) :
       /\ TransitionWordBefore(Processed, i)
       /\ SubSeq(Processed, i, i + Len(break_tag(150)) - 1) = break_tag(150)
  /\ \E i \in 1..Len(Processed) :
       SubSeq(Processed, i, i + Len(emphasis_close) - 1) = emphasis_close

-----------------------------------------------------------------------------
(* Properties of the stored turns *)

\* every stored history has an even length and starts with a user turn, and
\* its roles alternate, each assistant turn coming from the request of the
\* user turn before it
C25_Alternates ==
  \A id \in DOMAIN sessions :
    LET h == History(id)
    IN  /\ Len(h) % 2 = 0
        /\ Len(h) > 0 => h[1].role = "user"
        /\ \A i \in 1..Len(h) : h[i].role = IF i % 2 = 1 THEN "user" ELSE "assistant"
        /\ \A i \in 2..Len(h) : h[i].role # h[i - 1].role
        /\ \A i \in 2..Len(h) : h[i].role = "assistant" => h[i].by = h[i - 1].by

\* when a call returns, the two newest turns of its session are its user
\* message and the reply it returns
C25_ReplyFollowsMessage ==
  ( /\ out'.op = "process_message"
    /\ out'.status = "ok"
    /\ out'.result.session_id \in DOMAIN sessions' )
    => LET h == heap'[sessions'[out'.result.session_id]].conversation_history
       IN  /\ Len(h) >= 2
           /\ h[Len(h) - 1] = Turn("user", out'.call.message, out'.call.slot)
           /\ h[Len(h)] = Turn("assistant", out'.result.response, out'.call.slot)

\* C25: at every moment between the steps of process_message calls, also
\* of calls that overlap on one session, every stored history has an even
\* length, starts with a user turn and alternates user, assistant, and each
\* assistant turn is the reply returned for the user turn before it; so it
\* is when turns have been dropped at the cap of 20.
C25_HistoryAlternates ==
  /\ []C25_Alternates
  /\ [][C25_ReplyFollowsMessage]_vars

\* two overlapping calls have returned on a full history: it holds 20
\* turns, the newest four from the two calls, the oldest from before
C25_Witness ==
  /\ Returned
  /\ \A p \in Slots : pc[p] = "idle"
  /\ out.result.session_id \in DOMAIN sessions
  /\ LET h == History(out.result.session_id)
     IN  /\ Len(h) = MaxHistory
         /\ h[1].by = 0
         /\ {h[MaxHistory - 3].by, h[MaxHistory - 1].by} = {1, 2}
         /\ out.call.gen_invoked

-----------------------------------------------------------------------------
(* Properties of session creation *)

\* the call that the step started, as it stands after the step
Started ==
  IF \E p \in Slots : pc[p] = "idle" /\ pc'[p] # "idle"
  THEN req'[CHOOSE p \in Slots : pc[p] = "idle" /\ pc'[p] # "idle"]
  ELSE out'.call

\* C26: a call that creates a session (no id given, or one the store does
\* not hold) gives it an id that the store does not hold, so that every
\* session stored before is still stored, with its history and its crisis
\* flag unchanged; also when another session was created at the same clock
\* reading.
C26_CreationKeepsSessions ==
  [][ ( /\ ncalls' = ncalls + 1
        /\ Falsy(Started.supplied) \/ Started.supplied \notin DOMAIN sessions )
        => /\ Started.session_id \notin DOMAIN sessions
           /\ \A id \in DOMAIN sessions :
                /\ id \in DOMAIN sessions'
                /\ heap'[sessions'[id]].conversation_history = History(id)
                /\ heap'[sessions'[id]].crisis_detected = CrisisFlag(id)
    ]_vars

-----------------------------------------------------------------------------
(* Properties of a call whose Dialogue Generator fails *)

\* the sessions stored before the step are stored after it, each with the
\* history and the crisis flag it had
TurnsAndFlagsKept ==
  \A id \in DOMAIN sessions :
    /\ id \in DOMAIN sessions'
    /\ heap'[sessions'[id]].conversation_history = History(id)
    /\ heap'[sessions'[id]].crisis_detected = CrisisFlag(id)

\* the step started a call that is left waiting for a provider: such a
\* call can go on to fail in the Dialogue Generator
StartedWaiting ==
  /\ ncalls' = ncalls + 1
  /\ \E p \in Slots : pc[p] = "idle" /\ pc'[p] # "idle"

\* the step is the failure of the Dialogue Generator in a call
GeneratorFailed == out'.op = "process_message" /\ out'.status = "error"

\* C27: a call in which the Dialogue Generator fails raises one error and,
\* from its start to its failure, appends no turn to any history and changes
\* no crisis flag; what it leaves behind is the language of its session, set
\* to the request language, and, when it was given no id of a stored
\* session, a new session with an empty history.
C27_FailedCallLeavesNoTurn ==
  [][ /\ StartedWaiting
        => /\ TurnsAndFlagsKept
           /\ \A id \in DOMAIN sessions' \ DOMAIN sessions :
                /\ id = Started.session_id
                /\ heap'[sessions'[id]].conversation_history = <<>>
                /\ ~heap'[sessions'[id]].crisis_detected
           /\ \A id \in DOMAIN sessions \ {Started.session_id} :
                heap'[sessions'[id]].language = heap[sessions[id]].language
           /\ heap'[sessions'[Started.session_id]].language = Started.language
      /\ GeneratorFailed
        => /\ out'.call.gen_invoked
           /\ ~out'.call.is_crisis
           /\ sessions' = sessions
           /\ \A id \in DOMAIN sessions : heap'[sessions[id]] = heap[sessions[id]]
    ]_vars

-----------------------------------------------------------------------------
(* Properties of a voice turn that fails *)

\* the step in which the last candidate voice fails and the turn raises
SynthesisFails == vturn.pc = "text_to_speech" /\ vturn'.pc = "raised"

\* the step in which the transcription fails and the turn raises
TranscriptionFails == vturn.pc = "transcribe" /\ vturn'.pc = "raised"

\* the turn ends with one wrapped error and none of the fields of a result:
\* no transcription, no audio and no language were put into one
SingleError(error) ==
  /\ vturn'.error = error
  /\ vturn'.response_data.transcription = <<>>
  /\ vturn'.response_data.audio_base64 = b64encode(<<>>)
  /\ vturn'.response_data.language = ""
  /\ tts'.pc = "raised"

\* the session of the turn holds what its process_message stored: the
\* transcript and the reply as its two newest turns, the effective language
\* and, for a crisis transcript, the crisis flag
TurnStored(id) ==
  LET session == heap'[sessions'[id]]
      h == session.conversation_history
  IN  /\ Len(h) >= 2
      /\ h[Len(h) - 1].role = "user"
      /\ h[Len(h) - 1].content = vturn.transcript
      /\ h[Len(h)].role = "assistant"
      /\ h[Len(h)].content = vturn.response_data.response
      /\ session.language = vturn.detected_language
      /\ vturn.response_data.is_crisis => session.crisis_detected

\* a failure in transcription changes no session
TranscriptionFailureKeepsSessions ==
  TranscriptionFails
    => /\ vturn'.error = "Error processing voice message: Error transcribing audio"
       /\ vturn'.response_data = NoResponseData
       /\ UNCHANGED <<sessions, heap>>

-----------------------------------------------------------------------------
(* Properties of a call whose session is cleared while it waits *)

\* the call of slot p waits at a provider call and its session is not in
\* the store: clear_session has deleted it since the call began
ClearedWhileWaiting(p) == pc[p] # "idle" /\ req[p].session_id \notin DOMAIN sessions

\* the step is one of the call of slot p
StepOf(p) == pc'[p] # pc[p]

\* the step gives back the result of the call of slot p
ReturnsResult(p) ==
  /\ StepOf(p)
  /\ pc'[p] = "idle"
  /\ out'.op = "process_message"
  /\ out'.status = "ok"

\* the step changes neither the store nor any stored session
StoreKept ==
  /\ sessions' = sessions
  /\ \A i \in DOMAIN sessions : heap'[sessions[i]] = heap[sessions[i]]

\* what the steps of a call do once its session is cleared: they change no
\* stored session, so that neither the two appends nor the crisis flag reach
\* the store, and the call returns a normal result with the id
ClearedCallSteps(p) ==
  /\ StepOf(p) => StoreKept
  /\ ReturnsResult(p)
       => /\ out'.result.session_id = req[p].session_id
          /\ out'.result.response # <<>>
          /\ \A i \in DOMAIN sessions' :
               \A k \in 1..Len(heap'[sessions'[i]].conversation_history) :
                 heap'[sessions'[i]].conversation_history[k].by # p
                   \/ heap'[sessions'[i]].conversation_history[k]
                        \in {History(i)[j] : j \in 1..Len(History(i))}

-----------------------------------------------------------------------------
(* Properties of the emotion cache *)

\* the step returns an analysis parsed from a model response, from a call
\* on text t with the cache in use
SuccessfulAnalysis(t) ==
  /\ eout'.op = "analyze_emotion"
  /\ eout'.text = t
  /\ eout'.use_cache
  /\ eout'.model_invoked
  /\ ~eout'.from_cache
  /\ ~eout'.fallback
  /\ analysis_succeeds(eout'.outcome)
  /\ emotion_cache'[t] = eout'.outcome.data
  /\ eout'.analysis = eout'.outcome.data

\* the entries the step adds or changes come from a successful analysis of
\* their text with the cache in use, and the other entries stay
EntriesFromSuccess ==
  \A t \in DOMAIN emotion_cache' :
    (t \notin DOMAIN emotion_cache \/ emotion_cache'[t] # emotion_cache[t])
      => /\ SuccessfulAnalysis(t)
         /\ \A u \in DOMAIN emotion_cache \ {t} :
              u \in DOMAIN emotion_cache' /\ emotion_cache'[u] = emotion_cache[u]

\* a call that falls back to the neutral analysis leaves the cache alone
FallbackNotStored ==
  (eout'.op = "analyze_emotion" /\ eout'.fallback)
    => /\ emotion_cache' = emotion_cache
       /\ NeutralProfile(eout'.analysis)

\* entries leave the cache only when clear_cache empties it
RemovedOnlyByClear ==
  (\E t \in DOMAIN emotion_cache : t \notin DOMAIN emotion_cache')
    => /\ emotion_cache' = <<>>
       /\ eout' = NoEOut
       /\ UNCHANGED <<epc, ereq, ecalls>>

\* every cached analysis passed the schema
CachedAreParsed ==
  \A t \in DOMAIN emotion_cache :
    /\ t \in EmotionTexts \cup Messages
    /\ ValidEmotionAnalysis(emotion_cache[t])

\* the step answers a call on text t with the entry of the cache
AnsweredFromCacheEntry(t) ==
  /\ eout'.op = "analyze_emotion"
  /\ eout'.text = t
  /\ eout'.from_cache
  /\ ~eout'.model_invoked
  /\ eout'.analysis = emotion_cache[t]
  /\ emotion_cache' = emotion_cache

====
